---- MODULE Spec2Model ----
(***************************************************************************)
(* State-machine model of the ML-Visualizer pages.                         *)
(*                                                                         *)
(* Each page is a React function component.  Its state variables are the   *)
(* useState / useRef cells of the component; an action is one event        *)
(* handler, timer callback or animation-frame callback together with the   *)
(* re-render and the effects that the handler's state updates trigger.     *)
(* Every page has its own specification (the router mounts one page at a   *)
(* time); the cells of the pages that are not mounted keep their           *)
(* constructed values.                                                     *)
(*                                                                         *)
(* Numbers.  JavaScript numbers are modelled as records                    *)
(*   [k |-> "fin", v |-> n]   a finite value, n in units of 1/Scale        *)
(*   [k |-> "inf", v |-> s]   +Infinity (s = 1) or -Infinity (s = -1)      *)
(*   [k |-> "nan", v |-> 0]   NaN                                          *)
(* A finite result whose magnitude exceeds MaxFinite overflows to an       *)
(* infinity, as a double does beyond Number.MAX_VALUE.                     *)
(***************************************************************************)
EXTENDS Integers, Sequences, FiniteSets, TLC

VARIABLES
    \* ---- comparison page (src/unnamed/part_002)
    cmpPoints,        \* points: sequence of <<x, y>>, coordinates in tenths
    animationState,   \* [linear, nn, cnn] -> "playing" | "paused"
    progress,         \* [linear, nn, cnn] -> linearProgress, nnProgress, cnnProgress (units of 1/ProgressFull)
    showAccuracy,     \* [linear, nn, cnn] -> BOOLEAN
    calculations,     \* last result stored by calculateRegression
    animationRef,     \* TRUE while a requestAnimationFrame(animate) is pending
    frameRef,         \* frame counter
    cmpStatus,        \* "ok", or "TypeError" once an effect has thrown
    cmpEdits          \* number of user actions taken on the page so far

VARIABLES
    \* ---- animated linear-regression page (src/unnamed/part_001, lines 533-1517)
    dataPoints,       \* sequence of <<x, y>>, integer coordinates
    gdIsAnimating,    \* isAnimating
    speed,            \* "fast" | "slow"
    gdRafRef,         \* TRUE while a requestAnimationFrame(loop) is pending
    currentRef,       \* [m, b]: the line that is drawn
    targetRef,        \* [m, b]: closed-form solution kept by the dataPoints effect
    loopEnv,          \* what the pending loop closure captured, and its iter
    lastStep,         \* currentRef as the last gradientStep call left it
    gdDrawn,          \* the (m, b) of the last draw()
    gdEdits           \* number of user actions taken on the page so far

VARIABLES
    \* ---- linear-regression page with sliders (src/unnamed/part_001, lines 1-531)
    points,           \* sequence of <<x, y>>, integer coordinates
    currentM,         \* displayed slope
    currentB,         \* displayed intercept
    manualM,          \* slider override of the slope, or Null
    manualB,          \* slider override of the intercept, or Null
    lrIsAnimating,    \* isAnimating
    animSpeed,        \* 1..100
    lrRafRef,         \* TRUE while a requestAnimationFrame(step) is pending
    stepEnv,          \* what the animation effect's closure captured
    lrRun,            \* frames seen by the pending closure, and the elapsed time and norm of the last one
    lrTimer,          \* ms until the canvas click's setTimeout is due, -1 when none is pending
    lrEdits           \* number of user actions taken on the page so far

VARIABLES
    \* ---- decision-boundaries page (src/src/pages/DecisionBoundaries.tsx)
    algorithm,        \* "KNN" | "SVM" | "Logistic"
    dbPoints,         \* sequence of <<x, y, label>>, integer coordinates
    kValue,           \* KNN parameter
    svmW,             \* [w1, w2, b]: svmW1, svmW2, svmB in thousandths
    logW,             \* the six logistic weights, in thousandths
    dbTimers,         \* the setInterval drivers that are still running
    dbEdits           \* number of user actions taken on the page so far

VARIABLES
    \* ---- XOR network page (src/src/pages/NeuralNetworks.tsx)
    nnWeights,        \* weights: [w0, w1], the input-to-hidden and hidden-to-output arrays
    nnBiases,         \* biases
    nnEpoch,          \* epoch
    nnRunning,        \* running
    nnSpeed,          \* speed
    nnExample,        \* currentExample, as an index into XOR_DATA
    nnTimer,          \* the weights and biases the trainStep of the live interval closes over
    nnEdits           \* number of user actions taken on the page so far

VARIABLES
    \* ---- CNN visualizer (src/unnamed/part_001, from line 1153)
    cnnStep,          \* step
    cnnIsRunning,     \* isRunning
    cnnFrame,         \* the requested animation frame: the isRunning its loop closes over
    cnnEdits          \* number of user actions taken on the page so far

VARIABLES
    \* ---- one call of a function of the pages on given arguments
    fnPoints,         \* the points the component holds when the function is called
    fnArgs,           \* the other values the function reads: its parameters and the state it closes over
    fnResult          \* the function that was called, and what it returned

gdVars == <<dataPoints, gdIsAnimating, speed, gdRafRef, currentRef, targetRef,
            loopEnv, lastStep, gdDrawn, gdEdits>>

cmpVars == <<cmpPoints, animationState, progress, showAccuracy, calculations,
             animationRef, frameRef, cmpStatus, cmpEdits>>

lrVars == <<points, currentM, currentB, manualM, manualB, lrIsAnimating, animSpeed,
            lrRafRef, stepEnv, lrRun, lrTimer, lrEdits>>

dbVars == <<algorithm, dbPoints, kValue, svmW, logW, dbTimers, dbEdits>>

nnVars == <<nnWeights, nnBiases, nnEpoch, nnRunning, nnSpeed, nnExample, nnTimer, nnEdits>>

cnnVars == <<cnnStep, cnnIsRunning, cnnFrame, cnnEdits>>

fnVars == <<fnPoints, fnArgs, fnResult>>

vars == <<cmpVars, gdVars, lrVars, dbVars, nnVars, cnnVars, fnVars>>

\* the cells of the pages that are not mounted
cmpOthers == <<gdVars, lrVars, dbVars, nnVars, cnnVars, fnVars>>
gdOthers == <<cmpVars, lrVars, dbVars, nnVars, cnnVars, fnVars>>
lrOthers == <<cmpVars, gdVars, dbVars, nnVars, cnnVars, fnVars>>
dbOthers == <<cmpVars, gdVars, lrVars, nnVars, cnnVars, fnVars>>
nnOthers == <<cmpVars, gdVars, lrVars, dbVars, cnnVars, fnVars>>
cnnOthers == <<cmpVars, gdVars, lrVars, dbVars, nnVars, fnVars>>
\* the cells of all pages, left alone by a function call on given arguments
pageVars == <<cmpVars, gdVars, lrVars, dbVars, nnVars, cnnVars>>

(***************************************************************************)
(* Bounds of the model                                                     *)
(***************************************************************************)
MaxCmpEdits == 5
MaxCmpFrames == 6
MaxCmpPoints == 6
MaxGdEdits == 3
MaxGdPoints == 6
MaxLrEdits == 2
MaxLrPoints == 6
MaxDbEdits == 3
MaxDbPoints == 8
MaxDbTimers == 2
MaxFitPoints == 3
MaxViewPoints == 2
MaxKnnPoints == 3
MaxNnEdits == 3
MaxNnEpochs == 3
MaxCnnEdits == 40
GridSpan == 101

(***************************************************************************)
(* Generic helpers                                                         *)
(***************************************************************************)
Abs(n) == IF n < 0 THEN -n ELSE n
Min(a, b) == IF a < b THEN a ELSE b
Max(a, b) == IF a < b THEN b ELSE a

RECURSIVE SumSeq(_)
SumSeq(s) == IF s = <<>> THEN 0 ELSE Head(s) + SumSeq(Tail(s))

\* Array.prototype.filter((_, i) => i !== index), index 0-based
RemoveAt(s, idx) == [j \in 1..(Len(s) - 1) |-> IF j <= idx THEN s[j] ELSE s[j + 1]]

\* a / b rounded to the nearest integer, b > 0
RoundDiv(a, b) == (2 * a + b) \div (2 * b)

(***************************************************************************)
(* JavaScript numbers                                                      *)
(***************************************************************************)
Fin(v) == [k |-> "fin", v |-> v]
Inf(s) == [k |-> "inf", v |-> s]
NaN == [k |-> "nan", v |-> 0]
IsFinite(a) == a.k = "fin"

\* resolution of the finite values of the regression pages: 1 is GdScale units
ScaleDigits == 7
GdScale == 10 ^ ScaleDigits
\* largest finite magnitude (the model's Number.MAX_VALUE), in units of 1/GdScale
MaxFinite == 200 * GdScale

Sign(n) == IF n < 0 THEN -1 ELSE 1
\* a / b rounded to the nearest integer, half away from zero, b > 0
RoundDivS(a, b) == IF a >= 0 THEN RoundDiv(a, b) ELSE -RoundDiv(-a, b)

\* a + b
NAdd(a, b) ==
    IF a.k = "nan" \/ b.k = "nan" THEN NaN
    ELSE IF a.k = "inf" /\ b.k = "inf" THEN (IF a.v = b.v THEN a ELSE NaN)
    ELSE IF a.k = "inf" THEN a
    ELSE IF b.k = "inf" THEN b
    ELSE IF Sign(a.v) = Sign(b.v) /\ Abs(a.v) > MaxFinite - Abs(b.v) THEN Inf(Sign(a.v))
    ELSE Fin(a.v + b.v)
\* -a
NNeg(a) == IF a.k = "nan" THEN NaN ELSE [k |-> a.k, v |-> -a.v]
\* a - b
NSub(a, b) == NAdd(a, NNeg(b))
\* a * i for an integer-valued number i
NMulInt(a, i) ==
    IF a.k = "nan" THEN NaN
    ELSE IF a.k = "inf" THEN (IF i = 0 THEN NaN ELSE Inf(a.v * Sign(i)))
    ELSE IF i = 0 THEN Fin(0)
    ELSE IF Abs(a.v) > MaxFinite \div Abs(i) THEN Inf(Sign(a.v) * Sign(i))
    ELSE Fin(a.v * i)
\* a * (p / q) for integers p >= 0, q > 0
NMulRat(a, p, q) ==
    IF a.k # "fin" THEN (IF p = 0 /\ a.k = "inf" THEN NaN ELSE a)
    ELSE IF p = 0 THEN Fin(0)
    ELSE LET hi == Abs(a.v) \div q
             lo == Abs(a.v) % q
         IN IF hi > (MaxFinite \div p) - p THEN Inf(Sign(a.v))
            ELSE Fin(Sign(a.v) * (hi * p + RoundDiv(lo * p, q)))
\* Math.abs(a)
NAbs(a) == IF a.k = "nan" THEN NaN ELSE [k |-> a.k, v |-> Abs(a.v)]
\* a < c for a finite c given in units of 1/GdScale (false for NaN, as in JavaScript)
NLt(a, c) == (a.k = "fin" /\ a.v < c) \/ (a.k = "inf" /\ a.v < 0)

RECURSIVE NSum(_)
NSum(s) == IF s = <<>> THEN Fin(0) ELSE NAdd(NSum(SubSeq(s, 1, Len(s) - 1)), s[Len(s)])

\* the digits after the point of r / d (0 <= r < d), k digits, the last one rounded
RECURSIVE FracDigits(_, _, _)
FracDigits(r, d, k) ==
    IF k = 0 THEN (IF 2 * r >= d THEN 1 ELSE 0)
    ELSE ((r * 10) \div d) * (10 ^ (k - 1)) + FracDigits((r * 10) % d, d, k - 1)
\* the number a / d for integers a and d > 0, at the model's resolution
NQuot(a, d) ==
    LET q == Abs(a) \div d
        r == Abs(a) % d
    IN IF q >= MaxFinite \div GdScale THEN Inf(Sign(a))
       ELSE Fin(Sign(a) * (q * GdScale + FracDigits(r, d, ScaleDigits)))

(***************************************************************************)
(* Floating-point numbers.  Where the rounding of each operation matters,  *)
(* a number is the binary floating-point value m * 2^e with a signed       *)
(* significand m of exactly SigBits bits (or m = 0, e = 0), and every      *)
(* operation returns the representable value nearest to the exact result,  *)
(* ties to the even significand, as IEEE 754 arithmetic does.  A double    *)
(* has 53 significand bits; the model keeps SigBits of them, so that what  *)
(* a double does to integers near 2^53 the model does to integers near     *)
(* 2^SigBits.  The exponent is not bounded.                                *)
(***************************************************************************)
SigBits == 13

Pow2(n) == 2 ^ n

RECURSIVE BitLen(_)
BitLen(n) == IF n = 0 THEN 0 ELSE 1 + BitLen(n \div 2)

Flt(m, e) == [m |-> m, e |-> e]
FZero == Flt(0, 0)

\* the floating-point number nearest to M * 2^e, for an integer M
FRound(M, e) ==
    IF M = 0 THEN FZero
    ELSE LET a == Abs(M)
             len == BitLen(a)
             sh == len - SigBits
         IN IF sh <= 0 THEN Flt(Sign(M) * a * Pow2(-sh), e + sh)
            ELSE LET q == a \div Pow2(sh)
                     r == a % Pow2(sh)
                     half == Pow2(sh - 1)
                     up == r > half \/ (r = half /\ q % 2 = 1)
                     q2 == IF up THEN q + 1 ELSE q
                 IN IF q2 = Pow2(SigBits)
                    THEN Flt(Sign(M) * Pow2(SigBits - 1), e + sh + 1)
                    ELSE Flt(Sign(M) * q2, e + sh)

\* the number literal n
FInt(n) == FRound(n, 0)

\* a + b
FAdd(a, b) ==
    IF a.m = 0 THEN b
    ELSE IF b.m = 0 THEN a
    ELSE LET hi == IF a.e >= b.e THEN a ELSE b
             lo == IF a.e >= b.e THEN b ELSE a
             d == hi.e - lo.e
         IN IF d > SigBits + 1 THEN hi
            ELSE FRound(hi.m * Pow2(d) + lo.m, lo.e)
\* -a
FNeg(a) == Flt(-a.m, a.e)
\* a - b
FSub(a, b) == FAdd(a, FNeg(b))
\* a * b
FMul(a, b) == FRound(a.m * b.m, a.e + b.e)
\* a / b for b # 0: the quotient to SigBits + 2 bits and a sticky bit, rounded
FDiv(a, b) ==
    IF a.m = 0 THEN FZero
    ELSE LET n == Abs(a.m) * Pow2(SigBits + 2)
             q == n \div Abs(b.m)
             r == n % Abs(b.m)
         IN FRound(Sign(a.m) * Sign(b.m) * (2 * q + (IF r = 0 THEN 0 ELSE 1)),
                   a.e - b.e - SigBits - 3)
\* parseFloat of the decimal n / 10^d
FDec(n, d) == FDiv(FInt(n), FInt(10 ^ d))

\* a < b, a <= b: rounding never changes the sign of a difference
FLt(a, b) == FSub(a, b).m < 0
FLe(a, b) == FSub(a, b).m <= 0
\* Math.min(a, b), Math.max(a, b), Math.abs(a)
FMin(a, b) == IF FLt(b, a) THEN b ELSE a
FMax(a, b) == IF FLt(a, b) THEN b ELSE a
FAbs(a) == Flt(Abs(a.m), a.e)

\* reduce((s, v) => s + v, 0) over a sequence of numbers
RECURSIVE FSum(_)
FSum(s) == IF s = <<>> THEN FZero ELSE FAdd(FSum(SubSeq(s, 1, Len(s) - 1)), s[Len(s)])

\* the largest q in lo .. hi - 1 with q * q <= n, given lo * lo <= n < hi * hi
RECURSIVE ISqrtIn(_, _, _)
ISqrtIn(n, lo, hi) ==
    IF hi - lo <= 1 THEN lo
    ELSE LET mid == (lo + hi) \div 2
         IN IF mid * mid <= n THEN ISqrtIn(n, mid, hi) ELSE ISqrtIn(n, lo, mid)

\* Math.sqrt(a) for a >= 0: the root of the significand, widened to an even
\* exponent, to SigBits + 1 bits and a sticky bit, rounded
FSqrt(a) ==
    IF a.m <= 0 THEN FZero
    ELSE LET t == IF (a.e - SigBits - 1) % 2 = 0 THEN SigBits + 1 ELSE SigBits + 2
             M == a.m * Pow2(t)
             q == ISqrtIn(M, 0, Pow2(SigBits + 1))
         IN FRound(2 * q + (IF q * q = M THEN 0 ELSE 1), ((a.e - t) \div 2) - 1)

\* Math.floor(a), Math.ceil(a) and Math.round(a) = floor(a + 1/2), as integers
FFloor(a) == IF a.e >= 0 THEN a.m * Pow2(a.e) ELSE a.m \div Pow2(-a.e)
FCeil(a) == -FFloor(FNeg(a))
FRoundInt(a) == IF a.e >= 0 THEN a.m * Pow2(a.e) ELSE (2 * a.m + Pow2(-a.e)) \div Pow2(1 - a.e)

(***************************************************************************)
(* Comparison page: src/unnamed/part_002                                   *)
(***************************************************************************)
Models == {"linear", "nn", "cnn"}

\* useState initial value of points (coordinates in tenths)
DefaultCmpPoints == << <<10, 10>>, <<20, 23>>, <<30, 27>>, <<40, 38>>, <<50, 50>> >>

\* resolution of the slope and intercept computed by calculateRegression
CmpScale == 10 * 10 * 10

\* progress is kept in units of 1/ProgressFull; the per-frame increments
\* 0.002, 0.0015 and 0.001 are then 4, 3 and 2
ProgressFull == 2 * 1000
ProgressInc(model) == CASE model = "linear" -> 4 [] model = "nn" -> 3 [] model = "cnn" -> 2

Xs(pts) == [i \in 1..Len(pts) |-> pts[i][1]]
Ys(pts) == [i \in 1..Len(pts) |-> pts[i][2]]

\* calculateRegression.  xs.reduce((a, b) => a + b) has no initial value, so it
\* throws a TypeError on an empty array.  With n * mean = sum the code's
\* num = sum (x - meanX)(y - meanY) and den = sum (x - meanX)^2 are
\* numN / n^2 and denN / n^2 below; slope = num / den is 0 / 0 = NaN when every
\* x equals meanX, and intercept = meanY - slope * meanX is then NaN too.
CalculateRegression(pts) ==
    LET n == Len(pts)
        sx == SumSeq(Xs(pts))
        sy == SumSeq(Ys(pts))
        numN == SumSeq([i \in 1..n |-> (n * pts[i][1] - sx) * (n * pts[i][2] - sy)])
        denN == SumSeq([i \in 1..n |-> (n * pts[i][1] - sx) * (n * pts[i][1] - sx)])
        slope == IF denN = 0
                 THEN (IF numN = 0 THEN NaN ELSE Inf(IF numN > 0 THEN 1 ELSE -1))
                 ELSE Fin(RoundDiv(numN * CmpScale, denN))
        \* intercept in tenths * CmpScale
        intercept == IF IsFinite(slope)
                     THEN Fin(RoundDiv(sy * CmpScale - slope.v * sx, n))
                     ELSE NaN
    IN IF n = 0
       THEN [raised |-> TRUE, slope |-> NaN, intercept |-> NaN]
       ELSE [raised |-> FALSE, slope |-> slope, intercept |-> intercept]

\* One model's progress update inside animate: Math.min(1, prev + inc)
NextProgress(model, prev) == Min(ProgressFull, prev + ProgressInc(model))

\* The body of animate (one frame): every playing model advances, and a model
\* whose progress reaches 1 in this frame shows its accuracy.
AnimateProgress(st, prog) ==
    [m \in Models |-> IF st[m] = "playing" THEN NextProgress(m, prog[m]) ELSE prog[m]]
AnimateShow(st, prog, show) ==
    [m \in Models |-> IF st[m] = "playing"
                         /\ NextProgress(m, prog[m]) >= ProgressFull
                         /\ prog[m] < ProgressFull
                      THEN TRUE ELSE show[m]]

AnyPlaying(st) == \E m \in Models : st[m] = "playing"

\* The effect with dependencies [points, animationState, theme]: the cleanup of
\* the previous run cancels the pending frame; the new run computes the
\* regression (and dies when that throws), then either calls animate() at once
\* or, when every model is paused, resets every progress and hides every
\* accuracy.
CmpEffect(pts, st, show) ==
    LET reg == CalculateRegression(pts) IN
    IF reg.raised
    THEN /\ cmpStatus' = "TypeError"
         /\ animationRef' = FALSE
         /\ showAccuracy' = show
         /\ UNCHANGED <<progress, calculations, frameRef>>
    ELSE /\ cmpStatus' = "ok"
         /\ calculations' = [slope |-> reg.slope, intercept |-> reg.intercept]
         /\ IF AnyPlaying(st)
            THEN /\ progress' = AnimateProgress(st, progress)
                 /\ showAccuracy' = AnimateShow(st, progress, show)
                 /\ frameRef' = frameRef + 1
                 /\ animationRef' = TRUE
            ELSE /\ progress' = [m \in Models |-> 0]
                 /\ showAccuracy' = [m \in Models |-> FALSE]
                 /\ frameRef' = frameRef
                 /\ animationRef' = FALSE

CmpUser ==
    /\ cmpStatus = "ok"
    /\ cmpEdits < MaxCmpEdits
    /\ cmpEdits' = cmpEdits + 1
    /\ UNCHANGED cmpOthers

\* values the form's two number inputs can hold when Add Point is pressed (tenths)
CmpInputs == {10, 30}

\* toggleAnimation(chart)
CmpToggleAnimation(chart) ==
    /\ CmpUser
    /\ animationState' = [animationState EXCEPT
                             ![chart] = IF @ = "playing" THEN "paused" ELSE "playing"]
    /\ UNCHANGED cmpPoints
    /\ CmpEffect(cmpPoints, animationState', showAccuracy)

\* addPoint with both inputs parsed to numbers
CmpAddPoint(x, y) ==
    /\ CmpUser
    /\ Len(cmpPoints) < MaxCmpPoints
    /\ cmpPoints' = Append(cmpPoints, <<x, y>>)
    /\ UNCHANGED animationState
    /\ CmpEffect(cmpPoints', animationState, showAccuracy)

\* removePoint(index), index 0-based
CmpRemovePoint(index) ==
    /\ CmpUser
    /\ index < Len(cmpPoints)
    /\ cmpPoints' = RemoveAt(cmpPoints, index)
    /\ UNCHANGED animationState
    /\ CmpEffect(cmpPoints', animationState, showAccuracy)

\* resetPoints: the default points, and every accuracy hidden
CmpResetPoints ==
    /\ CmpUser
    /\ cmpPoints' = DefaultCmpPoints
    /\ UNCHANGED animationState
    /\ CmpEffect(DefaultCmpPoints, animationState, [m \in Models |-> FALSE])

\* the requestAnimationFrame callback animate
CmpFrame ==
    /\ cmpStatus = "ok"
    /\ animationRef
    /\ frameRef < MaxCmpFrames
    /\ progress' = AnimateProgress(animationState, progress)
    /\ showAccuracy' = AnimateShow(animationState, progress, showAccuracy)
    /\ frameRef' = frameRef + 1
    /\ UNCHANGED <<cmpPoints, animationState, calculations, animationRef, cmpStatus, cmpEdits>>
    /\ UNCHANGED cmpOthers

CmpInit ==
    /\ cmpPoints = DefaultCmpPoints
    /\ animationState = [m \in Models |-> "paused"]
    /\ progress = [m \in Models |-> 0]
    /\ showAccuracy = [m \in Models |-> FALSE]
    /\ calculations = [slope |-> CalculateRegression(DefaultCmpPoints).slope,
                       intercept |-> CalculateRegression(DefaultCmpPoints).intercept]
    /\ animationRef = FALSE
    /\ frameRef = 0
    /\ cmpStatus = "ok"
    /\ cmpEdits = 0

CmpNext ==
    \/ \E chart \in Models : CmpToggleAnimation(chart)
    \/ \E x \in CmpInputs, y \in CmpInputs : CmpAddPoint(x, y)
    \/ \E index \in 0..(MaxCmpPoints - 1) : CmpRemovePoint(index)
    \/ CmpResetPoints
    \/ CmpFrame

(***************************************************************************)
(* Animated linear regression (gradient descent): src/unnamed/part_001     *)
(***************************************************************************)
DefaultDataPoints == << <<1, 3>>, <<2, 5>>, <<3, 4>>, <<4, 7>>, <<5, 8>> >>

MaxIters == 4000
\* the tolerance 1e-4 of the stopping test, in units of 1/GdScale
Eps == GdScale \div 10000

Line(m, b) == [m |-> m, b |-> b]
ZeroLine == Line(Fin(0), Fin(0))

\* getAnimationConfig: lr as the fraction lrNum / lrDen
GetAnimationConfig(sp) ==
    IF sp = "fast" THEN [lrNum |-> 1, lrDen |-> 20, stepsPerFrame |-> 6]
                   ELSE [lrNum |-> 1, lrDen |-> 100, stepsPerFrame |-> 2]

\* computeClosedForm (m and b).  With n * mean = sum, num / den is
\* numN / denN below and b = meanY - m * meanX is (sy * denN - numN * sx) / (n * denN).
ComputeClosedForm(pts) ==
    LET n == Len(pts)
        sx == SumSeq(Xs(pts))
        sy == SumSeq(Ys(pts))
        numN == SumSeq([i \in 1..n |-> (n * pts[i][1] - sx) * (n * pts[i][2] - sy)])
        denN == SumSeq([i \in 1..n |-> (n * pts[i][1] - sx) * (n * pts[i][1] - sx)])
    IN IF n = 0 THEN ZeroLine
       ELSE IF denN = 0 THEN Line(Fin(0), NQuot(sy, n))
       ELSE Line(NQuot(numN, denN), NQuot(sy * denN - numN * sx, n * denN))

\* gradientStep: the new currentRef.current
GradientStep(pts, cfg, cur) ==
    LET n == Len(pts)
        err(i) == NSub(NAdd(NMulInt(cur.m, pts[i][1]), cur.b), Fin(pts[i][2] * GdScale))
        dm == NSum([i \in 1..n |-> NMulInt(NMulRat(err(i), 2, n), pts[i][1])])
        db == NSum([i \in 1..n |-> NMulRat(err(i), 2, n)])
    IN IF n = 0 THEN cur
       ELSE Line(NSub(cur.m, NMulRat(dm, cfg.lrNum, cfg.lrDen)),
                 NSub(cur.b, NMulRat(db, cfg.lrNum, cfg.lrDen)))

\* the stopping test without its iteration ceiling
StopTestNoCeiling(env, cur, iter) ==
    NLt(NAdd(NAbs(NSub(cur.m, env.closed.m)), NAbs(NSub(cur.b, env.closed.b))), Eps)

\* errDiff < 1e-4 || iter > maxIters
StopTest(env, cur, iter) ==
    \/ NLt(NAdd(NAbs(NSub(cur.m, env.closed.m)), NAbs(NSub(cur.b, env.closed.b))), Eps)
    \/ iter > MaxIters

\* a stop that leaves currentRef at the last gradient step
OnStopKeep(env, cur) == cur

\* what the loop does to currentRef when the stopping test is true:
\* "snap to closed form", the closedM / closedB of the render that started it
OnStop(env, cur) == env.closed

\* The for loop of one frame, from its s-th pass on.  The result is the line
\* left in currentRef, the line left by the last gradientStep, iter, and
\* whether the loop stopped the animation.
RECURSIVE LoopBody(_, _, _, _)
LoopBody(env, cur, iter, s) ==
    IF s = env.cfg.stepsPerFrame
    THEN [cur |-> cur, last |-> cur, iter |-> iter, stopped |-> FALSE]
    ELSE LET stepped == GradientStep(env.pts, env.cfg, cur) IN
         IF StopTest(env, stepped, iter + 1)
         THEN [cur |-> OnStop(env, stepped), last |-> stepped, iter |-> iter + 1, stopped |-> TRUE]
         ELSE LoopBody(env, stepped, iter + 1, s + 1)

\* emptyStarts counts the calls of animateGradientDescent that returned at
\* "If no data: just stop"
NoLoop ==
    [pts |-> <<>>, cfg |-> GetAnimationConfig("fast"), closed |-> ZeroLine, iter |-> 0,
     emptyStarts |-> 0]

GdUser ==
    /\ gdEdits < MaxGdEdits
    /\ gdEdits' = gdEdits + 1
    /\ UNCHANGED gdOthers

\* The effect with dependencies [dataPoints, theme], run after dataPoints
\* changed to pts: targetRef is refreshed, current follows it unless an
\* animation is running, and the line is drawn.  cur is currentRef as the
\* handler left it.
GdPointsEffect(pts, cur) ==
    /\ targetRef' = ComputeClosedForm(pts)
    /\ currentRef' = IF gdIsAnimating THEN cur ELSE ComputeClosedForm(pts)
    /\ gdDrawn' = currentRef'

\* animateGradientDescent without its "If no data: just stop" return
GdStartNoEmptyCheck ==
    /\ GdUser
    /\ ~gdIsAnimating
    /\ gdIsAnimating' = TRUE
    /\ gdRafRef' = TRUE
    /\ loopEnv' = [pts |-> dataPoints, cfg |-> GetAnimationConfig(speed),
                   closed |-> ComputeClosedForm(dataPoints), iter |-> 0,
                   emptyStarts |-> loopEnv.emptyStarts + (IF dataPoints = <<>> THEN 1 ELSE 0)]
    /\ UNCHANGED <<dataPoints, speed, currentRef, targetRef, lastStep, gdDrawn>>

\* toggleAnimation while idle: animateGradientDescent.  With no points
\* setIsAnimating(true) and setIsAnimating(false) are batched into one update
\* that leaves isAnimating false.
GdStart ==
    /\ GdUser
    /\ ~gdIsAnimating
    /\ IF dataPoints = <<>>
       THEN /\ loopEnv' = [loopEnv EXCEPT !.emptyStarts = @ + 1]
            /\ UNCHANGED <<gdIsAnimating, gdRafRef>>
       ELSE /\ gdIsAnimating' = TRUE
            /\ gdRafRef' = TRUE
            /\ loopEnv' = [pts |-> dataPoints, cfg |-> GetAnimationConfig(speed),
                           closed |-> ComputeClosedForm(dataPoints), iter |-> 0,
                           emptyStarts |-> loopEnv.emptyStarts]
    /\ UNCHANGED <<dataPoints, speed, currentRef, targetRef, lastStep, gdDrawn>>

\* a stop that clears isAnimating but leaves the requested frame pending
GdStopNoCancel ==
    /\ GdUser
    /\ gdIsAnimating
    /\ gdIsAnimating' = FALSE
    /\ UNCHANGED <<dataPoints, speed, gdRafRef, currentRef, targetRef, loopEnv, lastStep, gdDrawn>>

\* toggleAnimation while animating: stop
GdStop ==
    /\ GdUser
    /\ gdIsAnimating
    /\ gdIsAnimating' = FALSE
    /\ gdRafRef' = FALSE
    /\ UNCHANGED <<dataPoints, speed, currentRef, targetRef, loopEnv, lastStep, gdDrawn>>

\* the requestAnimationFrame callback loop
GdFrame ==
    /\ gdRafRef
    /\ \E r \in {LoopBody(loopEnv, currentRef, loopEnv.iter, 0)} :
       /\ currentRef' = r.cur
       /\ lastStep' = r.last
       /\ gdDrawn' = r.cur
       /\ loopEnv' = [loopEnv EXCEPT !.iter = r.iter]
       /\ IF r.stopped
          THEN /\ gdIsAnimating' = FALSE
               /\ gdRafRef' = FALSE
          ELSE /\ gdRafRef' = TRUE
               /\ UNCHANGED gdIsAnimating
    /\ UNCHANGED <<dataPoints, speed, targetRef, gdEdits>>
    /\ UNCHANGED gdOthers

\* the points the form and the canvas can add
GdInputs == {<<10, 3>>, <<0, 1>>}

\* addPoint / handleCanvasClick
GdAddPoint(x, y) ==
    /\ GdUser
    /\ Len(dataPoints) < MaxGdPoints
    /\ dataPoints' = Append(dataPoints, <<x, y>>)
    /\ GdPointsEffect(dataPoints', currentRef)
    /\ UNCHANGED <<gdIsAnimating, speed, gdRafRef, loopEnv, lastStep>>

\* the rows of the points table whose remove button is pressed
GdRemovable == {0, 1}

\* removePoint(idx), idx 0-based
GdRemovePoint(idx) ==
    /\ GdUser
    /\ idx < Len(dataPoints)
    /\ dataPoints' = RemoveAt(dataPoints, idx)
    /\ GdPointsEffect(dataPoints', currentRef)
    /\ UNCHANGED <<gdIsAnimating, speed, gdRafRef, loopEnv, lastStep>>

\* clearData
GdClearData ==
    /\ GdUser
    /\ dataPoints' = <<>>
    /\ GdPointsEffect(<<>>, ZeroLine)
    /\ UNCHANGED <<gdIsAnimating, speed, gdRafRef, loopEnv, lastStep>>

\* setSpeed
GdSetSpeed(sp) ==
    /\ GdUser
    /\ speed # sp
    /\ speed' = sp
    /\ UNCHANGED <<dataPoints, gdIsAnimating, gdRafRef, currentRef, targetRef,
                   loopEnv, lastStep, gdDrawn>>

GdInit ==
    /\ dataPoints = DefaultDataPoints
    /\ gdIsAnimating = FALSE
    /\ speed = "fast"
    /\ gdRafRef = FALSE
    /\ currentRef = ComputeClosedForm(DefaultDataPoints)
    /\ targetRef = ComputeClosedForm(DefaultDataPoints)
    /\ loopEnv = NoLoop
    /\ lastStep = ZeroLine
    /\ gdDrawn = ComputeClosedForm(DefaultDataPoints)
    /\ gdEdits = 0

GdNext ==
    \/ GdStart
    \/ GdStop
    \/ GdFrame
    \/ \E pt \in GdInputs : GdAddPoint(pt[1], pt[2])
    \/ \E idx \in GdRemovable : GdRemovePoint(idx)
    \/ GdClearData
    \/ \E sp \in {"fast", "slow"} : GdSetSpeed(sp)

(***************************************************************************)
(* Linear-regression page with sliders: src/unnamed/part_001, lines 1-531  *)
(***************************************************************************)
DefaultPoints == << <<1, 3>>, <<2, 5>>, <<3, 4>>, <<4, 7>>, <<5, 8>> >>

\* the value null of manualM / manualB
Null == [k |-> "null", v |-> 0]
\* !manual: null and 0 are both falsy
Falsy(manual) == manual = Null \/ manual = Fin(0)

\* calcRegression (m and b).  n * sumXY - sumX * sumY over denom, and
\* b = (sumY - m * sumX) / n as (sumY * denom - mNum * sumX) / (n * denom).
CalcRegression(pts) ==
    LET n == Len(pts)
        sumX == SumSeq(Xs(pts))
        sumY == SumSeq(Ys(pts))
        sumXY == SumSeq([i \in 1..n |-> pts[i][1] * pts[i][2]])
        sumX2 == SumSeq([i \in 1..n |-> pts[i][1] * pts[i][1]])
        denom == n * sumX2 - sumX * sumX
        mNum == n * sumXY - sumX * sumY
    IN IF n = 0 THEN ZeroLine
       ELSE IF denom = 0 THEN Line(Fin(0), NQuot(sumY, n))
       ELSE Line(NQuot(mNum, denom), NQuot(sumY * denom - mNum * sumX, n * denom))

\* Math.max(80, (101 - animSpeed) * 8), in ms
Duration(sp) == Max(80, (101 - sp) * 8)

\* a * (p / q) for an integer p of either sign and q > 0
NScale(a, p, q) == IF p < 0 THEN NNeg(NMulRat(a, -p, q)) ELSE NMulRat(a, p, q)

\* norm and ease are kept in thousandths
EaseUnit == 10 * 10 * 10
\* Math.min(1, elapsed / duration)
NormOf(elapsed, duration) == Min(EaseUnit, RoundDivS(EaseUnit * elapsed, duration))
\* ease in-out cubic: norm < 0.5 ? 4 norm^3 : 1 - (-2 norm + 2)^3 / 2
EaseOf(norm) ==
    IF 2 * norm < EaseUnit
    THEN RoundDivS(4 * norm * norm * norm, EaseUnit * EaseUnit)
    ELSE EaseUnit - RoundDivS((2 * EaseUnit - 2 * norm) * (2 * EaseUnit - 2 * norm)
                                  * (2 * EaseUnit - 2 * norm), 2 * EaseUnit * EaseUnit)

\* a jitter of twice the amplitude
JitterWide == { <<-(3 * GdScale) \div 10, (8 * GdScale) \div 10 - 1>>,
                <<(3 * GdScale) \div 10 - 1, -(8 * GdScale) \div 10>> }

\* <<randomM, randomB>>, (Math.random() - 0.5) * 0.3 and (Math.random() - 0.5) * 0.8:
\* the extreme values of both, in units of 1/GdScale
Jitter == { <<-(15 * GdScale) \div 100, (4 * GdScale) \div 10 - 1>>,
            <<(15 * GdScale) \div 100 - 1, -(4 * GdScale) \div 10>> }

\* start + delta * ease + random * (1 - ease)
StepValue(start, target, ease, random) ==
    NAdd(NAdd(start, NScale(NSub(target, start), ease, EaseUnit)),
         NScale(Fin(random), EaseUnit - ease, EaseUnit))

\* t - startTime of the first frame of a run: requestAnimationFrame's
\* timestamp is the time the frame began, which is not ordered with the
\* performance.now() the effect read
FirstOffsets == {-4, 0, 61}
\* time between two frames, in ms
FrameGaps == {244}

NoStep == [startM |-> Fin(0), startB |-> Fin(0), targetM |-> Fin(0), targetB |-> Fin(0),
           duration |-> Duration(40)]
NoRun == [frames |-> 0, elapsed |-> 0, norm |-> 0, written |-> ZeroLine]

LrUser ==
    /\ lrEdits < MaxLrEdits
    /\ lrEdits' = lrEdits + 1
    /\ UNCHANGED lrOthers

\* The re-render after a handler or callback left the state (pts, mM, mB,
\* anim, sp) and the line cur, with the effects it triggers:
\*   lines 207-212  deps [targetM, targetB, manualM, manualB]: current := target
\*                  unless a manual override is truthy;
\*   lines 215-259  deps [isAnimating, animSpeed, targetM, targetB]: the cleanup
\*                  cancels the pending frame, and while isAnimating a new
\*                  closure captures the rendered line and requests a frame;
\*   lines 335-342  deps [manualM] / [manualB]: current := manual.
\* The setState calls of the effects are applied together; the manual
\* effects run last.
LrRender(pts, mM, mB, anim, sp, cur) ==
    LET old == CalcRegression(points)
        target == CalcRegression(pts)
        syncDeps == target # old \/ mM # manualM \/ mB # manualB
        animDeps == anim # lrIsAnimating \/ sp # animSpeed \/ target # old
        synced == IF syncDeps /\ Falsy(mM) /\ Falsy(mB) THEN target ELSE cur
    IN /\ points' = pts
       /\ manualM' = mM
       /\ manualB' = mB
       /\ lrIsAnimating' = anim
       /\ animSpeed' = sp
       /\ currentM' = IF mM # manualM /\ mM # Null THEN mM ELSE synced.m
       /\ currentB' = IF mB # manualB /\ mB # Null THEN mB ELSE synced.b
       /\ IF animDeps
          THEN /\ lrRafRef' = anim
               /\ lrRun' = NoRun
               /\ stepEnv' = IF anim
                             THEN [startM |-> cur.m, startB |-> cur.b,
                                   targetM |-> target.m, targetB |-> target.b,
                                   duration |-> Duration(sp)]
                             ELSE stepEnv
          ELSE UNCHANGED <<lrRafRef, lrRun, stepEnv>>

LrCurrent == Line(currentM, currentB)

\* the "Animate BFL" button
LrAnimate ==
    /\ LrUser
    /\ LrRender(points, Null, Null, TRUE, animSpeed, LrCurrent)
    /\ UNCHANGED lrTimer

\* the values typed into inpX / inpY, and the data point under a canvas click
LrInputs == {<<3, 9>>, <<6, 2>>}

\* addPointFromInputs
LrAddPoint(x, y) ==
    /\ LrUser
    /\ Len(points) < MaxLrPoints
    /\ LrRender(Append(points, <<x, y>>), Null, Null, TRUE, animSpeed, LrCurrent)
    /\ UNCHANGED lrTimer

\* canvas onClick: the point is added now, setIsAnimating(true) runs from a
\* timer 50 ms later
LrCanvasClick(x, y) ==
    /\ LrUser
    /\ Len(points) < MaxLrPoints
    /\ lrTimer = -1
    /\ LrRender(Append(points, <<x, y>>), Null, Null, lrIsAnimating, animSpeed, LrCurrent)
    /\ lrTimer' = 50

\* the callback of the canvas click's setTimeout; without pending frames
\* nothing else runs until it is due
LrTimeout ==
    /\ lrTimer >= 0
    /\ lrTimer = 0 \/ ~lrRafRef
    /\ lrTimer' = -1
    /\ LrRender(points, manualM, manualB, TRUE, animSpeed, LrCurrent)
    /\ UNCHANGED lrEdits
    /\ UNCHANGED lrOthers

\* clearPoints
LrClearPoints ==
    /\ LrUser
    /\ LrRender(<<>>, Null, Null, lrIsAnimating, animSpeed, ZeroLine)
    /\ UNCHANGED lrTimer

\* the positions the sliders are moved to
LrSpeeds == {40, 100}
LrSlideM == {Fin(0), Fin(2 * GdScale)}
LrSlideB == {Fin(-GdScale)}

\* "Animation Speed" slider
LrSetAnimSpeed(sp) ==
    /\ LrUser
    /\ sp # animSpeed
    /\ LrRender(points, manualM, manualB, lrIsAnimating, sp, LrCurrent)
    /\ UNCHANGED lrTimer

\* "Manual Slope (m)" slider
LrSetManualM(v) ==
    /\ LrUser
    /\ v # manualM
    /\ LrRender(points, v, manualB, FALSE, animSpeed, LrCurrent)
    /\ UNCHANGED lrTimer

\* "Manual Intercept (b)" slider
LrSetManualB(v) ==
    /\ LrUser
    /\ v # manualB
    /\ LrRender(points, manualM, v, FALSE, animSpeed, LrCurrent)
    /\ UNCHANGED lrTimer

\* a step that never settles: it writes the eased line and requests a frame again
LrStepNoSettle(elapsed, randomM, randomB) ==
    LET norm == NormOf(elapsed, stepEnv.duration)
        ease == EaseOf(norm)
        new == Line(StepValue(stepEnv.startM, stepEnv.targetM, ease, randomM),
                    StepValue(stepEnv.startB, stepEnv.targetB, ease, randomB))
    IN /\ lrRun' = [frames |-> lrRun.frames + 1, elapsed |-> elapsed, norm |-> norm,
                    written |-> new]
       /\ currentM' = new.m
       /\ currentB' = new.b
       /\ lrIsAnimating' = TRUE
       /\ lrRafRef' = TRUE

\* the requestAnimationFrame callback step(t), elapsed = t - startTime
LrStep(elapsed, randomM, randomB) ==
    LET norm == NormOf(elapsed, stepEnv.duration)
        ease == EaseOf(norm)
        new == Line(StepValue(stepEnv.startM, stepEnv.targetM, ease, randomM),
                    StepValue(stepEnv.startB, stepEnv.targetB, ease, randomB))
        done == elapsed >= stepEnv.duration
    IN /\ lrRun' = [frames |-> lrRun.frames + 1, elapsed |-> elapsed, norm |-> norm,
                    written |-> new]
       /\ currentM' = IF done THEN stepEnv.targetM ELSE new.m
       /\ currentB' = IF done THEN stepEnv.targetB ELSE new.b
       /\ lrIsAnimating' = ~done
       /\ lrRafRef' = ~done

LrFrame ==
    /\ lrRafRef
    /\ \E gap \in (IF lrRun.frames = 0 THEN FirstOffsets ELSE FrameGaps) :
         /\ \E random \in Jitter :
              LrStep((IF lrRun.frames = 0 THEN 0 ELSE lrRun.elapsed) + gap, random[1], random[2])
         /\ lrTimer' = IF lrTimer > 0 THEN Max(0, lrTimer - Max(gap, 0)) ELSE lrTimer
    /\ UNCHANGED <<points, manualM, manualB, animSpeed, stepEnv, lrEdits>>
    /\ UNCHANGED lrOthers

LrInit ==
    /\ points = DefaultPoints
    /\ currentM = CalcRegression(DefaultPoints).m
    /\ currentB = CalcRegression(DefaultPoints).b
    /\ manualM = Null
    /\ manualB = Null
    /\ lrIsAnimating = FALSE
    /\ animSpeed = 40
    /\ lrRafRef = FALSE
    /\ stepEnv = NoStep
    /\ lrRun = NoRun
    /\ lrTimer = -1
    /\ lrEdits = 0

LrNext ==
    \/ LrAnimate
    \/ \E pt \in LrInputs : LrAddPoint(pt[1], pt[2])
    \/ \E pt \in LrInputs : LrCanvasClick(pt[1], pt[2])
    \/ LrTimeout
    \/ LrClearPoints
    \/ \E sp \in LrSpeeds : LrSetAnimSpeed(sp)
    \/ \E v \in LrSlideM : LrSetManualM(v)
    \/ \E v \in LrSlideB : LrSetManualB(v)
    \/ LrFrame

(***************************************************************************)
(* Decision-boundaries page: src/src/pages/DecisionBoundaries.tsx          *)
(* The weights of this page are kept in thousandths.                       *)
(***************************************************************************)
DbUnit == 10 * 10 * 10
DefaultDbPoints ==
    << <<1, 1, "A">>, <<2, 2, "A">>, <<3, 3, "A">>, <<1, 3, "B">>,
       <<2, 1, "B">>, <<3, 1, "B">>, <<4, 4, "A">> >>
DefaultLogW == <<-2 * DbUnit, DbUnit \div 2, DbUnit \div 2, DbUnit \div 2, DbUnit \div 2, DbUnit \div 2>>

\* duration 700 ms in 28 steps
Steps == 28

\* points.filter((p) => p.label === label)
WithLabel(pts, label) == SelectSeq(pts, LAMBDA p : p[3] = label)
\* the centroid coordinate reduce(...) / length, c = 1 for x and 2 for y
Centroid(pts, c) == RoundDivS(DbUnit * SumSeq([i \in 1..Len(pts) |-> pts[i][c]]), Len(pts))

\* the KNN target: Math.max(1, Math.min(9, Math.round(points.length / 2) || 3))
KnnTarget(pts) ==
    LET half == RoundDiv(Len(pts), 2)
    IN Max(1, Min(9, IF half = 0 THEN 3 ELSE half))

\* the SVM target [w1, w2, b]
SvmTarget(pts) ==
    LET aPts == WithLabel(pts, "A")
        bPts == WithLabel(pts, "B")
        aCx == Centroid(aPts, 1)
        aCy == Centroid(aPts, 2)
        bCx == Centroid(bPts, 1)
        bCy == Centroid(bPts, 2)
        w1 == aCx - bCx
        w2 == aCy - bCy
    IN IF aPts # <<>> /\ bPts # <<>>
       THEN [w1 |-> w1, w2 |-> w2,
             b |-> -(RoundDivS(w1 * (aCx + bCx), 2 * DbUnit) + RoundDivS(w2 * (aCy + bCy), 2 * DbUnit))]
       ELSE [w1 |-> DbUnit, w2 |-> -DbUnit, b |-> 0]

\* the logistic target, bias being the value of Math.random() * -2
LogTarget(pts, startW, bias) ==
    LET aPts == WithLabel(pts, "A")
        bPts == WithLabel(pts, "B")
        dx == Centroid(aPts, 1) - Centroid(bPts, 1)
        dy == Centroid(aPts, 2) - Centroid(bPts, 2)
    IN IF aPts # <<>> /\ bPts # <<>>
       THEN <<bias, dx, dy, RoundDivS(3 * dx, 10), RoundDivS(dx + dy, 10), RoundDivS(3 * dy, 10)>>
       ELSE startW

\* values of Math.random() * -2
DbBias == {-(3 * DbUnit) \div 2, 0}

\* start + (target - start) * t, t = step / steps
Lerp(start, target, step) == start + RoundDivS((target - start) * step, Steps)

DbUser ==
    /\ dbEdits < MaxDbEdits
    /\ dbEdits' = dbEdits + 1
    /\ UNCHANGED dbOthers

\* the algorithm select
DbSetAlgorithm(a) ==
    /\ DbUser
    /\ a # algorithm
    /\ algorithm' = a
    /\ UNCHANGED <<dbPoints, kValue, svmW, logW, dbTimers>>

\* the coordinates and labels of the points that are added
DbInputs == {<<2, 4, "A">>, <<4, 1, "B">>}

\* addFromForm / handleCanvasClick
DbAddPoint(x, y, label) ==
    /\ DbUser
    /\ Len(dbPoints) < MaxDbPoints
    /\ dbPoints' = Append(dbPoints, <<x, y, label>>)
    /\ UNCHANGED <<algorithm, kValue, svmW, logW, dbTimers>>

\* clearData
DbClearData ==
    /\ DbUser
    /\ dbPoints' = <<>>
    /\ UNCHANGED <<algorithm, kValue, svmW, logW, dbTimers>>

\* the k slider
DbSetKValue(k) ==
    /\ DbUser
    /\ k # kValue
    /\ kValue' = k
    /\ UNCHANGED <<algorithm, dbPoints, svmW, logW, dbTimers>>

\* the positions and the value of the logistic weight sliders that are moved
DbLogSliders == {0, 5}
DbLogValue == 3 * DbUnit

\* setLogWAt(i, value), i 0-based
DbSetLogWAt(i, value) ==
    /\ DbUser
    /\ algorithm = "Logistic"
    /\ logW' = [idx \in DOMAIN logW |-> IF idx = i + 1 THEN value ELSE logW[idx]]
    /\ logW' # logW
    /\ UNCHANGED <<algorithm, dbPoints, kValue, svmW, dbTimers>>

\* animateBoundary: a new interval timer for the selected algorithm
DbAnimateBoundary ==
    /\ DbUser
    /\ Len(dbTimers) < MaxDbTimers
    /\ \E bias \in (IF algorithm = "Logistic" THEN DbBias ELSE {0}) :
         dbTimers' = Append(dbTimers,
            [alg |-> algorithm,
             step |-> 0,
             start |-> IF algorithm = "KNN" THEN kValue
                       ELSE IF algorithm = "SVM" THEN svmW ELSE logW,
             target |-> IF algorithm = "KNN" THEN KnnTarget(dbPoints)
                        ELSE IF algorithm = "SVM" THEN SvmTarget(dbPoints)
                        ELSE LogTarget(dbPoints, logW, bias)])
    /\ UNCHANGED <<algorithm, dbPoints, kValue, svmW, logW>>

\* The callback of the interval timer that is due next.  All timers have
\* the same period, so they fire in the order of their last firing (or
\* creation): dbTimers is kept in that order.
DbTick ==
    /\ dbTimers # <<>>
    /\ LET timer == Head(dbTimers)
           step == timer.step + 1
       IN /\ kValue' = IF timer.alg = "KNN"
                       THEN RoundDiv(Steps * timer.start + (timer.target - timer.start) * step, Steps)
                       ELSE kValue
          /\ svmW' = IF timer.alg = "SVM"
                     THEN [w1 |-> Lerp(timer.start.w1, timer.target.w1, step),
                           w2 |-> Lerp(timer.start.w2, timer.target.w2, step),
                           b |-> Lerp(timer.start.b, timer.target.b, step)]
                     ELSE svmW
          /\ logW' = IF timer.alg = "Logistic"
                     THEN [j \in DOMAIN logW |-> Lerp(logW[j], timer.target[j], step)]
                     ELSE logW
          /\ dbTimers' = IF step >= Steps
                         THEN Tail(dbTimers)
                         ELSE Append(Tail(dbTimers), [timer EXCEPT !.step = step])
    /\ UNCHANGED <<algorithm, dbPoints, dbEdits>>
    /\ UNCHANGED dbOthers

DbAlgorithms == {"KNN", "SVM", "Logistic"}
DbKValues == {1, 9}

DbInit ==
    /\ algorithm = "Logistic"
    /\ dbPoints = DefaultDbPoints
    /\ kValue = 5
    /\ svmW = [w1 |-> DbUnit, w2 |-> DbUnit, b |-> -2 * DbUnit]
    /\ logW = DefaultLogW
    /\ dbTimers = <<>>
    /\ dbEdits = 0

DbNext ==
    \/ \E a \in DbAlgorithms : DbSetAlgorithm(a)
    \/ \E pt \in DbInputs : DbAddPoint(pt[1], pt[2], pt[3])
    \/ DbClearData
    \/ \E k \in DbKValues : DbSetKValue(k)
    \/ \E i \in DbLogSliders : DbSetLogWAt(i, DbLogValue)
    \/ DbAnimateBoundary
    \/ DbTick

(***************************************************************************)
(* XOR network page: src/src/pages/NeuralNetworks.tsx                      *)
(*                                                                         *)
(* The weights are random numbers that only sums are added to, so a weight *)
(* is modelled by what has been added to it since initNetwork drew it: the *)
(* sequence of the batches (sets of XOR_DATA indices) whose updates it     *)
(* received.  An update is computed by forward() from all the weights the  *)
(* trainStep closes over, so two weights are equal only if they received   *)
(* the same updates computed from the same weights.                        *)
(***************************************************************************)
\* XOR_DATA, by index
XorData == 1..4
\* the values of the speed slider that are used
NnSpeeds == {50, 190}

\* Array(n).fill(0).map(() => rand())
Fresh(n) == [i \in 1..n |-> <<>>]

\* initNetwork with one input-to-hidden weight missing
InitNetworkShort == [w0 |-> Fresh(7), w1 |-> Fresh(4), b |-> Fresh(5)]

\* initNetwork
InitNetwork == [w0 |-> Fresh(8), w1 |-> Fresh(4), b |-> Fresh(5)]

\* arr[idx] += update computed from batch, idx 0-based; an index past the end
\* lengthens the array, the holes and the new element no longer being numbers
AddAt(arr, idx, batch) ==
    IF idx < Len(arr)
    THEN [arr EXCEPT ![idx + 1] = Append(@, batch)]
    ELSE [i \in 1..(idx + 1) |-> IF i <= Len(arr) THEN arr[i] ELSE <<"NaN">>]

RECURSIVE AddAll(_, _, _)
\* arr[i] += ... for every i of the sequence idxs
AddAll(arr, idxs, batch) ==
    IF idxs = <<>> THEN arr ELSE AddAll(AddAt(arr, Head(idxs), batch), Tail(idxs), batch)

\* trainStep on the weights w and biases b of its closure, Math.random()
\* having chosen example: the arguments of setWeights and setBiases
TrainStep(w, b, example) ==
    [w0 |-> AddAll(w.w0, <<0, 1, 2, 3, 4, 5, 6, 7>>, {example}),
     w1 |-> AddAll(w.w1, [i \in 1..Len(w.w1) |-> i - 1], {example}),
     b |-> AddAll(b, <<0, 1, 2, 3, 4>>, {example})]

NoTimer == [live |-> FALSE]
\* setInterval(trainStep, interval) of the render that holds weights w, biases b
Timer(w, b) == [live |-> TRUE, weights |-> w, biases |-> b]

NnUser ==
    /\ nnEdits < MaxNnEdits
    /\ nnEdits' = nnEdits + 1
    /\ UNCHANGED nnOthers

\* the Start button (shown while not running): setRunning(true); the render of
\* a click and its effects are flushed before the click returns, so the
\* interval exists when the action ends
NnStart ==
    /\ NnUser
    /\ ~nnRunning
    /\ nnRunning' = TRUE
    /\ nnTimer' = Timer(nnWeights, nnBiases)
    /\ UNCHANGED <<nnWeights, nnBiases, nnEpoch, nnSpeed, nnExample>>

\* the Stop button (shown while running): setRunning(false); the cleanup of
\* the effect clears the interval
NnStop ==
    /\ NnUser
    /\ nnRunning
    /\ nnRunning' = FALSE
    /\ nnTimer' = NoTimer
    /\ UNCHANGED <<nnWeights, nnBiases, nnEpoch, nnSpeed, nnExample>>

\* resetNetwork
NnReset ==
    /\ NnUser
    /\ nnWeights' = [w0 |-> InitNetwork.w0, w1 |-> InitNetwork.w1]
    /\ nnBiases' = InitNetwork.b
    /\ nnEpoch' = 0
    /\ nnRunning' = FALSE
    /\ nnExample' = 1
    /\ nnTimer' = NoTimer
    /\ UNCHANGED nnSpeed

\* the speed slider: the effect depends on speed and replaces the interval
NnSetSpeed(v) ==
    /\ NnUser
    /\ v # nnSpeed
    /\ nnSpeed' = v
    /\ nnTimer' = IF nnRunning THEN Timer(nnWeights, nnBiases) ELSE NoTimer
    /\ UNCHANGED <<nnWeights, nnBiases, nnEpoch, nnRunning, nnExample>>

\* The interval fires: trainStep of the render that created the interval.
\* Its state updates are rendered later, in a task of their own.
NnTick ==
    /\ nnTimer.live
    /\ nnEpoch < MaxNnEpochs
    /\ \E example \in XorData :
       \E new \in {TrainStep(nnTimer.weights, nnTimer.biases, example)} :
          /\ nnWeights' = [w0 |-> new.w0, w1 |-> new.w1]
          /\ nnBiases' = new.b
          /\ nnExample' = example
    /\ nnEpoch' = nnEpoch + 1
    /\ UNCHANGED <<nnRunning, nnSpeed, nnTimer, nnEdits>>
    /\ UNCHANGED nnOthers

\* The render after a tick and its effect: trainStep has changed with the
\* weights, so the cleanup clears the interval and the effect sets a new one
\* on the new trainStep.  The interval that is being replaced can fire
\* before that, as often as its period (10 ms at speed 190) has passed.
NnEffect ==
    /\ nnTimer.live
    /\ nnTimer # Timer(nnWeights, nnBiases)
    /\ nnTimer' = Timer(nnWeights, nnBiases)
    /\ UNCHANGED <<nnWeights, nnBiases, nnEpoch, nnRunning, nnSpeed, nnExample, nnEdits>>
    /\ UNCHANGED nnOthers

NnInit ==
    /\ nnWeights = [w0 |-> InitNetwork.w0, w1 |-> InitNetwork.w1]
    /\ nnBiases = InitNetwork.b
    /\ nnEpoch = 0
    /\ nnRunning = FALSE
    /\ nnSpeed = 50
    /\ nnExample = 1
    /\ nnTimer = NoTimer
    /\ nnEdits = 0

NnNext ==
    \/ NnStart
    \/ NnStop
    \/ NnReset
    \/ \E v \in NnSpeeds : NnSetSpeed(v)
    \/ NnTick
    \/ NnEffect

(***************************************************************************)
(* CNN visualizer: src/unnamed/part_001, from line 1153                    *)
(***************************************************************************)
\* layers.length
NumLayers == 7

NoFrame == [pending |-> FALSE]
\* requestAnimationFrame(loop), loop being the function of a render in which
\* isRunning had the value running
Frame(running) == [pending |-> TRUE, isRunning |-> running]

CnnUser ==
    /\ cnnEdits < MaxCnnEdits
    /\ cnnEdits' = cnnEdits + 1
    /\ UNCHANGED cnnOthers

\* start: the loop it requests is the loop of the render start belongs to,
\* in which isRunning is what start has just tested
CnnStart ==
    /\ CnnUser
    /\ IF ~cnnIsRunning
       THEN /\ cnnIsRunning' = TRUE
            /\ cnnFrame' = Frame(cnnIsRunning)
       ELSE UNCHANGED <<cnnIsRunning, cnnFrame>>
    /\ UNCHANGED cnnStep

\* stop
CnnStop ==
    /\ CnnUser
    /\ cnnIsRunning' = FALSE
    /\ cnnFrame' = NoFrame
    /\ UNCHANGED cnnStep

\* reset: stop(), setStep(0), draw()
CnnReset ==
    /\ CnnUser
    /\ cnnIsRunning' = FALSE
    /\ cnnFrame' = NoFrame
    /\ cnnStep' = 0

\* The requested frame: loop.  When its isRunning is true it advances step
\* and requests itself again; the effect of the render with the new step then
\* runs the cleanup of the previous one, which cancels that request.
CnnLoop ==
    /\ cnnFrame.pending
    /\ IF cnnFrame.isRunning
       THEN /\ cnnStep' = (cnnStep + 1) % NumLayers
            /\ cnnFrame' = NoFrame
       ELSE /\ cnnFrame' = NoFrame
            /\ UNCHANGED cnnStep
    /\ UNCHANGED <<cnnIsRunning, cnnEdits>>
    /\ UNCHANGED cnnOthers

CnnInit ==
    /\ cnnStep = 0
    /\ cnnIsRunning = FALSE
    /\ cnnFrame = NoFrame
    /\ cnnEdits = 0

CnnNext ==
    \/ CnnStart
    \/ CnnStop
    \/ CnnReset
    \/ CnnLoop

(***************************************************************************)
(* The numeric functions of the pages, operation by operation in           *)
(* floating-point arithmetic.  A point is <<x, y>> or <<x, y, label>> with *)
(* floating-point coordinates.                                             *)
(***************************************************************************)
\* the sum over the points of (p.y - (m * p.x + b)) squared
SseOf(pts, m, b) ==
    LET sq(i) == LET r == FSub(pts[i][2], FAdd(FMul(m, pts[i][1]), b)) IN FMul(r, r)
    IN FSum([i \in 1..Len(pts) |-> sq(i)])

\* a fit whose intercept leaves out the slope term
CalcRegressionNoSlopeTerm(pts) ==
    LET n == Len(pts)
        sumX == FSum([i \in 1..n |-> pts[i][1]])
        sumY == FSum([i \in 1..n |-> pts[i][2]])
        sumXY == FSum([i \in 1..n |-> FMul(pts[i][1], pts[i][2])])
        sumX2 == FSum([i \in 1..n |-> FMul(pts[i][1], pts[i][1])])
        denom == FSub(FMul(FInt(n), sumX2), FMul(sumX, sumX))
        m == IF denom = FZero THEN FZero
             ELSE FDiv(FSub(FMul(FInt(n), sumXY), FMul(sumX, sumY)), denom)
        b == FDiv(sumY, FInt(n))
    IN IF n = 0 THEN [m |-> FZero, b |-> FZero, sse |-> FZero]
       ELSE [m |-> m, b |-> b, sse |-> SseOf(pts, m, b)]

\* calcRegression (src/unnamed/part_001:19-34): m, b and error
CalcRegressionOf(pts) ==
    LET n == Len(pts)
        sumX == FSum([i \in 1..n |-> pts[i][1]])
        sumY == FSum([i \in 1..n |-> pts[i][2]])
        sumXY == FSum([i \in 1..n |-> FMul(pts[i][1], pts[i][2])])
        sumX2 == FSum([i \in 1..n |-> FMul(pts[i][1], pts[i][1])])
        denom == FSub(FMul(FInt(n), sumX2), FMul(sumX, sumX))
        m == IF denom = FZero THEN FZero
             ELSE FDiv(FSub(FMul(FInt(n), sumXY), FMul(sumX, sumY)), denom)
        b == FDiv(FSub(sumY, FMul(m, sumX)), FInt(n))
    IN IF n = 0 THEN [m |-> FZero, b |-> FZero, sse |-> FZero]
       ELSE [m |-> m, b |-> b, sse |-> SseOf(pts, m, b)]

\* computeClosedForm (src/unnamed/part_001:650-677): m, b and ssr
ComputeClosedFormOf(pts) ==
    LET n == Len(pts)
        meanX == FDiv(FSum([i \in 1..n |-> pts[i][1]]), FInt(n))
        meanY == FDiv(FSum([i \in 1..n |-> pts[i][2]]), FInt(n))
        dx(i) == FSub(pts[i][1], meanX)
        num == FSum([i \in 1..n |-> FMul(dx(i), FSub(pts[i][2], meanY))])
        den == FSum([i \in 1..n |-> FMul(dx(i), dx(i))])
        m == IF den = FZero THEN FZero ELSE FDiv(num, den)
        b == FSub(meanY, FMul(m, meanX))
    IN IF n = 0 THEN [m |-> FZero, b |-> FZero, sse |-> FZero]
       ELSE [m |-> m, b |-> b, sse |-> SseOf(pts, m, b)]

\* Math.min(...vs), Math.max(...vs) for a non-empty sequence of numbers
RECURSIVE FMinSeq(_)
FMinSeq(vs) == IF Len(vs) = 1 THEN vs[1] ELSE FMin(FMinSeq(SubSeq(vs, 1, Len(vs) - 1)), vs[Len(vs)])
RECURSIVE FMaxSeq(_)
FMaxSeq(vs) == IF Len(vs) = 1 THEN vs[1] ELSE FMax(FMaxSeq(SubSeq(vs, 1, Len(vs) - 1)), vs[Len(vs)])

FXs(pts) == [i \in 1..Len(pts) |-> pts[i][1]]
FYs(pts) == [i \in 1..Len(pts) |-> pts[i][2]]
Domain(xMin, xMax, yMin, yMax) == [xMin |-> xMin, xMax |-> xMax, yMin |-> yMin, yMax |-> yMax]

\* getAxisLimits of the comparison page (src/unnamed/part_002:63-84)
GetAxisLimits(pts) ==
    LET xMin == FMinSeq(FXs(pts))
        xMax == FMaxSeq(FXs(pts))
        yMin == FMinSeq(FYs(pts))
        yMax == FMaxSeq(FYs(pts))
        xPadding == FMul(FSub(xMax, xMin), FDec(1, 1))
        yPadding == FMul(FSub(yMax, yMin), FDec(1, 1))
    IN IF pts = <<>> THEN Domain(FZero, FInt(6), FZero, FInt(6))
       ELSE Domain(FMax(FZero, FSub(xMin, xPadding)), FAdd(xMax, xPadding),
                   FMax(FZero, FSub(yMin, yPadding)), FAdd(yMax, yPadding))

\* one axis of getDomain of the slider page (src/unnamed/part_001:67-86):
\* <<min, max>> after the padding and the "if flat, expand" test
LrAxis(vs) ==
    LET lo == FMinSeq(vs)
        hi == FMaxSeq(vs)
        pad == FMax(FInt(1), FMul(FSub(hi, lo), FDec(15, 2)))
        lo2 == FSub(lo, pad)
        hi2 == FAdd(hi, pad)
    IN IF FLt(FAbs(FSub(hi2, lo2)), FDec(1, 6)) THEN <<lo2, FAdd(lo2, FInt(5))>> ELSE <<lo2, hi2>>
GetDomainLr(pts) ==
    IF pts = <<>> THEN Domain(FZero, FInt(10), FZero, FInt(10))
    ELSE Domain(LrAxis(FXs(pts))[1], LrAxis(FXs(pts))[2], LrAxis(FYs(pts))[1], LrAxis(FYs(pts))[2])

\* one axis of computeBounds of the gradient-descent page (src/unnamed/part_001:605-628)
GdAxis(vs) ==
    LET lo == FMinSeq(vs)
        hi == FMaxSeq(vs)
        pad == FMax(FInt(1), FMul(FSub(hi, lo), FDec(25, 2)))
        lo2 == FSub(lo, pad)
        hi2 == FAdd(hi, pad)
    IN IF FLt(FAbs(FSub(hi2, lo2)), FDec(1, 6))
       THEN <<FSub(lo2, FInt(1)), FAdd(hi2, FInt(1))>> ELSE <<lo2, hi2>>
ComputeBounds(pts) ==
    IF pts = <<>> THEN Domain(FZero, FInt(8), FZero, FInt(8))
    ELSE Domain(GdAxis(FXs(pts))[1], GdAxis(FXs(pts))[2], GdAxis(FYs(pts))[1], GdAxis(FYs(pts))[2])

\* one axis of getDomain of the decision-boundaries page
\* (src/src/pages/DecisionBoundaries.tsx:72-93)
DbAxis(vs) ==
    LET lo == FMin(FZero, FMinSeq(vs))
        hi == FMax(FInt(10), FMaxSeq(vs))
        range == IF FSub(hi, lo) = FZero THEN FInt(10) ELSE FSub(hi, lo)
    IN <<FSub(lo, FMul(range, FDec(1, 1))), FAdd(hi, FMul(range, FDec(1, 1)))>>
GetDomainDb(pts) ==
    IF pts = <<>> THEN Domain(FZero, FInt(10), FZero, FInt(10))
    ELSE Domain(DbAxis(FXs(pts))[1], DbAxis(FXs(pts))[2], DbAxis(FYs(pts))[1], DbAxis(FYs(pts))[2])

\* PADDING of the slider page, PAD / CANVAS_W / CANVAS_H of the
\* gradient-descent page, PADDING of the decision-boundaries page
LrPadding == 48
GdPad == 48
CanvasW == 640
CanvasH == 360
DbPadding == 40

Pixel(px, py) == [px |-> px, py |-> py]
Data(x, y) == [x |-> x, y |-> y]

\* a dataToPixel that does not invert the y axis
DataToPixelLrNoFlip(dom, x, y, width, height) ==
    Pixel(FAdd(FInt(LrPadding),
               FMul(FDiv(FSub(x, dom.xMin), FSub(dom.xMax, dom.xMin)), FInt(width - 2 * LrPadding))),
          FAdd(FInt(LrPadding),
               FMul(FDiv(FSub(y, dom.yMin), FSub(dom.yMax, dom.yMin)), FInt(height - 2 * LrPadding))))

\* dataToPixel / pixelToData of the slider page (src/unnamed/part_001:89-100),
\* dom being what getDomain() returns
DataToPixelLr(dom, x, y, width, height) ==
    Pixel(FAdd(FInt(LrPadding),
               FMul(FDiv(FSub(x, dom.xMin), FSub(dom.xMax, dom.xMin)), FInt(width - 2 * LrPadding))),
          FSub(FInt(height - LrPadding),
               FMul(FDiv(FSub(y, dom.yMin), FSub(dom.yMax, dom.yMin)), FInt(height - 2 * LrPadding))))
PixelToDataLr(dom, px, py, width, height) ==
    Data(FAdd(dom.xMin,
              FMul(FDiv(FSub(px, FInt(LrPadding)), FInt(width - 2 * LrPadding)), FSub(dom.xMax, dom.xMin))),
         FAdd(dom.yMin,
              FMul(FDiv(FSub(FInt(height - LrPadding), py), FInt(height - 2 * LrPadding)),
                   FSub(dom.yMax, dom.yMin))))

\* toCanvas / toData of the gradient-descent page (src/unnamed/part_001:631-647),
\* dom being boundsRef.current
ToCanvas(dom, x, y) ==
    Pixel(FAdd(FInt(GdPad),
               FMul(FDiv(FSub(x, dom.xMin), FSub(dom.xMax, dom.xMin)), FInt(CanvasW - GdPad * 2))),
          FAdd(FInt(GdPad),
               FMul(FSub(FInt(1), FDiv(FSub(y, dom.yMin), FSub(dom.yMax, dom.yMin))),
                    FInt(CanvasH - GdPad * 2))))
ToData(dom, cx, cy) ==
    Data(FAdd(dom.xMin,
              FMul(FDiv(FSub(cx, FInt(GdPad)), FInt(CanvasW - GdPad * 2)), FSub(dom.xMax, dom.xMin))),
         FAdd(dom.yMin,
              FMul(FSub(FInt(1), FDiv(FSub(cy, FInt(GdPad)), FInt(CanvasH - GdPad * 2))),
                   FSub(dom.yMax, dom.yMin))))

\* dataToPixel / pixelToData of the decision-boundaries page
\* (src/src/pages/DecisionBoundaries.tsx:98-114), dom being domain
DataToPixelDb(dom, x, y, width, height) ==
    Pixel(FAdd(FInt(DbPadding),
               FMul(FDiv(FSub(x, dom.xMin), FSub(dom.xMax, dom.xMin)), FInt(width - DbPadding * 2))),
          FAdd(FInt(DbPadding),
               FMul(FDiv(FSub(dom.yMax, y), FSub(dom.yMax, dom.yMin)), FInt(height - DbPadding * 2))))
PixelToDataDb(dom, px, py, width, height) ==
    Data(FAdd(dom.xMin,
              FMul(FDiv(FSub(px, FInt(DbPadding)), FInt(width - DbPadding * 2)), FSub(dom.xMax, dom.xMin))),
         FSub(dom.yMax,
              FMul(FDiv(FSub(py, FInt(DbPadding)), FInt(height - DbPadding * 2)),
                   FSub(dom.yMax, dom.yMin))))

(***************************************************************************)
(* classifyGrid of the decision-boundary pages.  A training point is       *)
(* <<x, y, label>>.                                                        *)
(***************************************************************************)
\* dist(a, b) = Math.sqrt(dx * dx + dy * dy)
Dist(ax, ay, bx, by) ==
    LET dx == FSub(ax, bx)
        dy == FSub(ay, by)
    IN FSqrt(FAdd(FMul(dx, dx), FMul(dy, dy)))

\* points.map((p) => ({ p, d: dist({ x: gx, y: gy }, p) }))
WithDist(pts, gx, gy) ==
    [i \in 1..Len(pts) |-> [p |-> pts[i], d |-> Dist(gx, gy, pts[i][1], pts[i][2])]]

\* descending order in place of ascending
InsertByDDescending(sorted, item) ==
    LET pos == Cardinality({i \in 1..Len(sorted) : FLe(item.d, sorted[i].d)})
    IN SubSeq(sorted, 1, pos) \o <<item>> \o SubSeq(sorted, pos + 1, Len(sorted))

\* .sort((a, b) => a.d - b.d) is stable: an element goes behind the elements
\* before it that are not farther than it
InsertByD(sorted, item) ==
    LET pos == Cardinality({i \in 1..Len(sorted) : FLe(sorted[i].d, item.d)})
    IN SubSeq(sorted, 1, pos) \o <<item>> \o SubSeq(sorted, pos + 1, Len(sorted))

RECURSIVE SortByD(_)
SortByD(s) ==
    IF s = <<>> THEN <<>> ELSE InsertByD(SortByD(SubSeq(s, 1, Len(s) - 1)), s[Len(s)])

\* for (let i = 0; i < k; i++) votes[distances[i].p.label]++
Votes(distances, k, label) == Cardinality({i \in 1..k : distances[i].p[3] = label})

\* a tie of the votes going to B
ClassifyKnnDbTieB(pts, kVal, gx, gy) ==
    IF Len(pts) = 0 THEN "A"
    ELSE LET distances == SortByD(WithDist(pts, gx, gy))
             k == Max(1, Min(Len(pts), FRoundInt(kVal)))
         IN IF Votes(distances, k, "A") > Votes(distances, k, "B") THEN "A" ELSE "B"

\* classifyGrid of DecisionBoundaries.tsx, algorithm KNN
ClassifyKnnDb(pts, kVal, gx, gy) ==
    IF Len(pts) = 0 THEN "A"
    ELSE LET distances == SortByD(WithDist(pts, gx, gy))
             k == Max(1, Min(Len(pts), FRoundInt(kVal)))
         IN IF Votes(distances, k, "A") >= Votes(distances, k, "B") THEN "A" ELSE "B"

\* the rounded k of DecisionBoundaries.tsx in place of the interpolation
ClassifyKnnAboutRounded(pts, kVal, gx, gy) == ClassifyKnnDb(pts, kVal, gx, gy)

\* classifyGrid of About.tsx, algorithm KNN
ClassifyKnnAbout(pts, kVal, gx, gy) ==
    IF Len(pts) = 0 THEN "A"
    ELSE LET distances == SortByD(WithDist(pts, gx, gy))
             kFractional == FMax(FInt(1), FMin(FInt(Len(pts)), kVal))
             kFloor == FFloor(kFractional)
             kCeil == FCeil(kFractional)
             weight == FSub(kFractional, FInt(kFloor))
             aVotes == FAdd(FMul(FInt(Votes(distances, kFloor, "A")), FSub(FInt(1), weight)),
                            FMul(FInt(Votes(distances, kCeil, "A")), weight))
             bVotes == FAdd(FMul(FInt(Votes(distances, kFloor, "B")), FSub(FInt(1), weight)),
                            FMul(FInt(Votes(distances, kCeil, "B")), weight))
         IN IF FLe(bVotes, aVotes) THEN "A" ELSE "B"

\* f > 0 in place of f >= 0
ClassifySvmStrict(w1, w2, b, gx, gy) ==
    LET f == FAdd(FAdd(FMul(w1, gx), FMul(w2, gy)), b)
    IN IF FLt(FZero, f) THEN "A" ELSE "B"

\* the threshold 0.5 of the logistic branch in place of 0
ClassifySvmHalf(w1, w2, b, gx, gy) ==
    LET f == FAdd(FAdd(FMul(w1, gx), FMul(w2, gy)), b)
    IN IF FLe(FDec(5, 1), f) THEN "A" ELSE "B"

\* classifyGrid of both pages, algorithm SVM
ClassifySvm(w1, w2, b, gx, gy) ==
    LET f == FAdd(FAdd(FMul(w1, gx), FMul(w2, gy)), b)
    IN IF FLe(FZero, f) THEN "A" ELSE "B"

\* every page as constructed
PageInit == CmpInit /\ GdInit /\ LrInit /\ DbInit /\ NnInit /\ CnnInit

(***************************************************************************)
(* One call of a function on given arguments.  The arguments are chosen    *)
(* when the behaviour starts; a step calls one function and records what   *)
(* it returned.                                                            *)
(***************************************************************************)
NoArgs == [kind |-> "none"]
NoResult == [fn |-> "none"]
\* no function is being examined: the state of the page specifications
FnIdle ==
    /\ fnPoints = <<>>
    /\ fnArgs = NoArgs
    /\ fnResult = NoResult

Returned(fn, val) == [fn |-> fn, val |-> val]
\* a call changes neither its arguments nor the cells of the pages
FnFrame ==
    /\ UNCHANGED <<fnPoints, fnArgs>>
    /\ UNCHANGED pageVars

\* the point { x: xn / 10^xd, y } as parseFloat reads it from the form
Pt(xn, xd, y) == <<FDec(xn, xd), FInt(y)>>

\* the default points of both regression pages (part_001:37-43 and 566-572)
DefaultFitPoints == << Pt(1, 0, 3), Pt(2, 0, 5), Pt(3, 0, 4), Pt(4, 0, 7), Pt(5, 0, 8) >>

\* the points the regression functions are called on: up to MaxFitPoints
\* points out of FitCandidates in any order, and the default points
FitCandidates ==
    { Pt(1, 1, 1), Pt(1, 1, 2), Pt(1, 1, 4), Pt(1, 0, 3), Pt(2, 0, 5),
      Pt(100, 0, 0), Pt(101, 0, 1), Pt(102, 0, 2) }
FitPointSets ==
    {DefaultFitPoints} \cup UNION {[1..k -> FitCandidates] : k \in 0..MaxFitPoints}

FnCalcRegression ==
    /\ \E val \in {CalcRegressionOf(fnPoints)} : fnResult' = Returned("calcRegression", val)
    /\ FnFrame
FnComputeClosedForm ==
    /\ \E val \in {ComputeClosedFormOf(fnPoints)} : fnResult' = Returned("computeClosedForm", val)
    /\ FnFrame

FitInit ==
    /\ PageInit
    /\ fnPoints \in FitPointSets
    /\ fnArgs = NoArgs
    /\ fnResult = NoResult

FitNext ==
    \/ FnCalcRegression
    \/ FnComputeClosedForm

\* ---- the domain and mapping functions called on given points
\* the points held by the page: up to MaxViewPoints out of ViewCandidates
ViewCandidates == { Pt(1, 1, 1), Pt(2, 0, 5), Pt(2, 0, -4), Pt(-3, 0, 5), Pt(100, 0, 0) }
ViewPointSets == UNION {[1..k -> ViewCandidates] : k \in 0..MaxViewPoints}
\* the data point that is mapped, and the canvas clientWidth / clientHeight
ViewQueries == { Pt(1, 1, 1), Pt(2, 0, 5), Pt(-3, 0, -4), Pt(7, 0, 3) }
Viewports == { <<640, 360>>, <<300, 200>> }

FnGetAxisLimits ==
    /\ \E val \in {GetAxisLimits(fnPoints)} : fnResult' = Returned("getAxisLimits", val)
    /\ FnFrame
FnGetDomainLr ==
    /\ \E val \in {GetDomainLr(fnPoints)} : fnResult' = Returned("getDomainLr", val)
    /\ FnFrame
FnComputeBounds ==
    /\ \E val \in {ComputeBounds(fnPoints)} : fnResult' = Returned("computeBounds", val)
    /\ FnFrame
FnGetDomainDb ==
    /\ \E val \in {GetDomainDb(fnPoints)} : fnResult' = Returned("getDomainDb", val)
    /\ FnFrame

\* pixelToData(dataToPixel(x, y)) on the slider page
FnRoundTripLr ==
    /\ \E dom \in {GetDomainLr(fnPoints)} :
       \E pix \in {DataToPixelLr(dom, fnArgs.x, fnArgs.y, fnArgs.width, fnArgs.height)} :
       \E data \in {PixelToDataLr(dom, pix.px, pix.py, fnArgs.width, fnArgs.height)} :
          fnResult' = Returned("roundTripLr", [dom |-> dom, pixel |-> pix, data |-> data])
    /\ FnFrame
\* toData(toCanvas(x, y)) on the gradient-descent page
FnRoundTripGd ==
    /\ \E dom \in {ComputeBounds(fnPoints)} :
       \E pix \in {ToCanvas(dom, fnArgs.x, fnArgs.y)} :
       \E data \in {ToData(dom, pix.px, pix.py)} :
          fnResult' = Returned("roundTripGd", [dom |-> dom, pixel |-> pix, data |-> data])
    /\ FnFrame
\* pixelToData(dataToPixel(x, y)) on the decision-boundaries page
FnRoundTripDb ==
    /\ \E dom \in {GetDomainDb(fnPoints)} :
       \E pix \in {DataToPixelDb(dom, fnArgs.x, fnArgs.y, fnArgs.width, fnArgs.height)} :
       \E data \in {PixelToDataDb(dom, pix.px, pix.py, fnArgs.width, fnArgs.height)} :
          fnResult' = Returned("roundTripDb", [dom |-> dom, pixel |-> pix, data |-> data])
    /\ FnFrame

ViewInit ==
    /\ PageInit
    /\ fnPoints \in ViewPointSets
    /\ \E q \in ViewQueries, v \in Viewports :
          fnArgs = [kind |-> "view", x |-> q[1], y |-> q[2], width |-> v[1], height |-> v[2]]
    /\ fnResult = NoResult

ViewNext ==
    \/ FnGetAxisLimits
    \/ FnGetDomainLr
    \/ FnComputeBounds
    \/ FnGetDomainDb
    \/ FnRoundTripLr
    \/ FnRoundTripGd
    \/ FnRoundTripDb

\* a training point with coordinates given in halves
LPt(xh, yh, label) == <<FDiv(FInt(xh), FInt(2)), FDiv(FInt(yh), FInt(2)), label>>
\* useState initial value of points on both decision-boundary pages
DefaultKnnPoints ==
    << LPt(2, 2, "A"), LPt(4, 4, "A"), LPt(6, 6, "A"), LPt(2, 6, "B"),
       LPt(4, 2, "B"), LPt(6, 2, "B"), LPt(8, 8, "A") >>
KnnCandidates ==
    { LPt(2, 2, "A"), LPt(4, 4, "A"), LPt(2, 6, "B"), LPt(6, 2, "B"), LPt(5, 3, "B") }
KnnPointSets == {DefaultKnnPoints} \cup UNION {[1..n -> KnnCandidates] : n \in 0..MaxKnnPoints}
\* the query points (gx, gy)
KnnQueries == { <<FInt(2), FInt(2)>>, <<FDec(5, 1), FInt(3)>>, <<FInt(3), FDec(25, 1)>> }
\* kValue: the slider of About.tsx has step 0.1 and its animation sets any
\* fraction; the whole values are those of DecisionBoundaries.tsx as well
KValues == { FInt(1), FInt(2), FInt(3), FInt(15),
             FDec(15, 1), FDec(225, 2), FDec(275, 2), FDec(21, 1) }
\* a number that is an integer
IsWhole(a) == a.e >= 0 \/ a.m % Pow2(-a.e) = 0

\* the sliders of w1, w2 and the bias, the factor c and the query points
SvmWeights == { FInt(1), FDec(3, 1) }
SvmBiases == { FInt(-4), FInt(-2), FDec(-9, 1) }
SvmFactors == { FInt(2), FInt(5), FDec(5, 1), FDec(3, 1) }
SvmQueries == { <<FInt(1), FInt(1)>>, <<FInt(3), FInt(3)>>, <<FInt(2), FInt(2)>>,
                <<FDec(7, 1), FDec(2, 1)>>, <<FInt(3), FInt(0)>> }

\* classifyGrid(gx, gy) of DecisionBoundaries.tsx with algorithm KNN; kValue is
\* whole there: the slider has step 1 and the animation rounds each value
FnClassifyKnnDb ==
    /\ fnArgs.kind = "knn"
    /\ IsWhole(fnArgs.k)
    /\ \E val \in {ClassifyKnnDb(fnPoints, fnArgs.k, fnArgs.x, fnArgs.y)} :
          fnResult' = Returned("classifyKnnDb", val)
    /\ FnFrame
\* classifyGrid(gx, gy) of About.tsx with algorithm KNN
FnClassifyKnnAbout ==
    /\ fnArgs.kind = "knn"
    /\ \E val \in {ClassifyKnnAbout(fnPoints, fnArgs.k, fnArgs.x, fnArgs.y)} :
          fnResult' = Returned("classifyKnnAbout", val)
    /\ FnFrame
\* classifyGrid(gx, gy) with algorithm SVM
FnClassifySvm ==
    /\ fnArgs.kind = "svm"
    /\ \E val \in {ClassifySvm(fnArgs.w1, fnArgs.w2, fnArgs.b, fnArgs.x, fnArgs.y)} :
          fnResult' = Returned("classifySvm", val)
    /\ FnFrame
\* classifyGrid(gx, gy) with algorithm SVM and the weights c * w1, c * w2, c * b
FnClassifySvmScaled ==
    /\ fnArgs.kind = "svm"
    /\ \E val \in {ClassifySvm(FMul(fnArgs.c, fnArgs.w1), FMul(fnArgs.c, fnArgs.w2),
                               FMul(fnArgs.c, fnArgs.b), fnArgs.x, fnArgs.y)} :
          fnResult' = Returned("classifySvmScaled", val)
    /\ FnFrame

ClassifyInit ==
    /\ PageInit
    /\ \/ /\ fnPoints \in KnnPointSets
          /\ \E k \in KValues, q \in KnnQueries :
                fnArgs = [kind |-> "knn", k |-> k, x |-> q[1], y |-> q[2]]
       \/ /\ fnPoints = <<>>
          /\ \E w1 \in SvmWeights, w2 \in SvmWeights, b \in SvmBiases,
                c \in SvmFactors, q \in SvmQueries :
                fnArgs = [kind |-> "svm", w1 |-> w1, w2 |-> w2, b |-> b, c |-> c,
                          x |-> q[1], y |-> q[2]]
    /\ fnResult = NoResult

ClassifyNext ==
    \/ FnClassifyKnnDb
    \/ FnClassifyKnnAbout
    \/ FnClassifySvm
    \/ FnClassifySvmScaled

(***************************************************************************)
(* The SVM branch of animateBoundary on both decision-boundary pages: the  *)
(* weights it has set when the animation has completed.  fnPoints are the  *)
(* points, fnArgs.w1, .w2, .b the weights when Animate is pressed.         *)
(***************************************************************************)
\* <<sum of x / length, sum of y / length>>
CentroidOf(pts) ==
    << FDiv(FSum([i \in 1..Len(pts) |-> pts[i][1]]), FInt(Len(pts))),
       FDiv(FSum([i \in 1..Len(pts) |-> pts[i][2]]), FInt(Len(pts))) >>
\* a.length && b.length
BothClasses(pts) == WithLabel(pts, "A") # <<>> /\ WithLabel(pts, "B") # <<>>
Weights(w1, w2, b) == [w1 |-> w1, w2 |-> w2, b |-> b]

\* the weights from the B centroid to the A centroid and the bias that puts
\* the boundary through the midpoint of the centroids
CentroidWeights(pts) ==
    LET aC == CentroidOf(WithLabel(pts, "A"))
        bC == CentroidOf(WithLabel(pts, "B"))
        w1 == FSub(aC[1], bC[1])
        w2 == FSub(aC[2], bC[2])
    IN Weights(w1, w2,
               FNeg(FAdd(FDiv(FMul(w1, FAdd(aC[1], bC[1])), FInt(2)),
                         FDiv(FMul(w2, FAdd(aC[2], bC[2])), FInt(2)))))

\* targetW1, targetW2, targetB of DecisionBoundaries.tsx
SvmTargetDb(pts) ==
    IF BothClasses(pts) THEN CentroidWeights(pts) ELSE Weights(FInt(1), FInt(-1), FInt(0))

\* "Normalize SVM weights": the two weights c.w1, c.w2 divided by
\* svmNorm * 0.5, svmNorm being root || 1; the bias stays as computed
NormalizeWeights(c, root) ==
    LET svmNorm == IF root = FZero THEN FInt(1) ELSE root
    IN Weights(FDiv(c.w1, FMul(svmNorm, FDec(5, 1))),
               FDiv(c.w2, FMul(svmNorm, FDec(5, 1))), c.b)

\* targetSvmW1, targetSvmW2, targetSvmB of About.tsx: the two weights are
\* normalized after the bias has been computed
SvmTargetAbout(pts, initial) ==
    IF ~BothClasses(pts) THEN initial
    ELSE CHOOSE target \in
            UNION { { NormalizeWeights(c, root) :
                        root \in {FSqrt(FAdd(FMul(c.w1, c.w1), FMul(c.w2, c.w2)))} } :
                    c \in {CentroidWeights(pts)} } : TRUE

\* easeProgress of About.tsx at progress p
EaseProgress(p) ==
    IF FLt(p, FDec(5, 1)) THEN FMul(FMul(FInt(2), p), p)
    ELSE FAdd(FInt(-1), FMul(FSub(FInt(4), FMul(FInt(2), p)), p))
\* initial + (target - initial) * t for each weight
Interpolate(initial, target, t) ==
    Weights(FAdd(initial.w1, FMul(FSub(target.w1, initial.w1), t)),
            FAdd(initial.w2, FMul(FSub(target.w2, initial.w2), t)),
            FAdd(initial.b, FMul(FSub(target.b, initial.b), t)))

\* animateBoundary of About.tsx, algorithm SVM: the weights set by the frame
\* with progress 1, after which no frame is requested
FnAnimateSvmAbout ==
    /\ fnArgs.kind = "animate"
    /\ \E initial \in {Weights(fnArgs.w1, fnArgs.w2, fnArgs.b)} :
         \E val \in {Interpolate(initial, SvmTargetAbout(fnPoints, initial),
                                 EaseProgress(FInt(1)))} :
            fnResult' = Returned("animateSvmAbout", val)
    /\ FnFrame
\* animateBoundary of DecisionBoundaries.tsx, algorithm SVM: the weights set
\* by the tick with step = steps, which clears the interval
FnAnimateSvmDb ==
    /\ fnArgs.kind = "animate"
    /\ \E initial \in {Weights(fnArgs.w1, fnArgs.w2, fnArgs.b)} :
         \E val \in {Interpolate(initial, SvmTargetDb(fnPoints),
                                 FDiv(FInt(Steps), FInt(Steps)))} :
            fnResult' = Returned("animateSvmDb", val)
    /\ FnFrame

SvmAnimInit ==
    /\ PageInit
    /\ fnPoints \in KnnPointSets
    /\ \E w1 \in SvmWeights, w2 \in SvmWeights, b \in SvmBiases :
          fnArgs = [kind |-> "animate", w1 |-> w1, w2 |-> w2, b |-> b]
    /\ fnResult = NoResult

SvmAnimNext ==
    \/ FnAnimateSvmAbout
    \/ FnAnimateSvmDb

(***************************************************************************)
(* The add-point forms.  A text is the sequence of its characters; the     *)
(* texts of the two fields are fnArgs.x and fnArgs.y, the points of the    *)
(* page are fnPoints.                                                      *)
(***************************************************************************)
DigitChars == <<"0", "1", "2", "3", "4", "5", "6", "7", "8", "9">>
IsDigit(c) == \E d \in DOMAIN DigitChars : DigitChars[d] = c
DigitVal(c) == (CHOOSE d \in DOMAIN DigitChars : DigitChars[d] = c) - 1
CharAt(s, i) == IF i \in DOMAIN s THEN s[i] ELSE "end"

\* the index after the run of digits that starts at i
RECURSIVE AfterDigits(_, _)
AfterDigits(s, i) == IF IsDigit(CharAt(s, i)) THEN AfterDigits(s, i + 1) ELSE i
\* the index of the first character from i on that is not white space
RECURSIVE AfterSpace(_, _)
AfterSpace(s, i) == IF CharAt(s, i) = " " THEN AfterSpace(s, i + 1) ELSE i
\* the number written by the digits s[i..j-1], after the digits acc
RECURSIVE DigitsValue(_, _, _, _)
DigitsValue(s, i, j, acc) ==
    IF i >= j THEN acc ELSE DigitsValue(s, i + 1, j, 10 * acc + DigitVal(s[i]))
\* the number of decimal digits of n > 0
RECURSIVE NumDigits(_)
NumDigits(n) == IF n < 10 THEN 1 ELSE 1 + NumDigits(n \div 10)

Infinite(neg) == [k |-> "inf", neg |-> neg]
\* the finite number (neg ? -1 : 1) * mant * 10^exp
Finite(neg, mant, exp) == [k |-> "fin", neg |-> neg, mant |-> mant, exp |-> exp]
InfinityText == <<"I", "n", "f", "i", "n", "i", "t", "y">>
\* the largest d with 10^d a finite double (Number.MAX_VALUE is 1.797...e308)
MaxDecimalExponent == 308

\* parseFloat(text): leading white space is skipped, the longest prefix that
\* is a decimal literal (sign, Infinity, or digits with an optional fraction
\* and exponent) is read and the rest ignored; without such a prefix the
\* result is NaN.  A literal of magnitude 10^309 or more reads as Infinity.
ParseFloat(s) ==
    LET i0 == AfterSpace(s, 1)
        neg == CharAt(s, i0) = "-"
        i1 == IF CharAt(s, i0) \in {"-", "+"} THEN i0 + 1 ELSE i0
        intEnd == AfterDigits(s, i1)
        fracStart == IF CharAt(s, intEnd) = "." THEN intEnd + 1 ELSE intEnd
        fracEnd == AfterDigits(s, fracStart)
        mant == DigitsValue(s, fracStart, fracEnd, DigitsValue(s, i1, intEnd, 0))
        expSign == IF CharAt(s, fracEnd + 1) \in {"-", "+"} THEN fracEnd + 2 ELSE fracEnd + 1
        expEnd == AfterDigits(s, expSign)
        hasExp == CharAt(s, fracEnd) \in {"e", "E"} /\ expEnd > expSign
        expVal == IF ~hasExp THEN 0
                  ELSE IF CharAt(s, fracEnd + 1) = "-" THEN -DigitsValue(s, expSign, expEnd, 0)
                  ELSE DigitsValue(s, expSign, expEnd, 0)
        exp == expVal - (fracEnd - fracStart)
    IN IF \A j \in DOMAIN InfinityText : CharAt(s, i1 + j - 1) = InfinityText[j]
       THEN Infinite(neg)
       ELSE IF (intEnd - i1) + (fracEnd - fracStart) = 0 THEN NaN
       ELSE IF mant # 0 /\ NumDigits(mant) - 1 + exp > MaxDecimalExponent THEN Infinite(neg)
       ELSE Finite(neg, mant, exp)

\* isNaN(v) and Number.isFinite(v)
IsNaN(v) == v.k = "nan"
NumberIsFinite(v) == v.k = "fin"

\* what is typed into a coordinate field
FormTexts ==
    { <<>>, <<"2", ".", "5">>, <<"a", "b", "c">>, InfinityText, <<"-">> \o InfinityText,
      <<"1", "2", "a", "b", "c">>, <<"1", "e", "9", "9", "9">>, <<" ", "7">>,
      <<"-", "3">>, <<".", "5">>, <<"N", "a", "N">> }
\* the points already on the page
FormPointSets == { <<>>, << <<ParseFloat(<<"1">>), ParseFloat(<<"3">>)>> >> }

\* addPoint of the gradient-descent page: if (isNaN(x) || isNaN(y)) return
FnAddPointGd ==
    /\ \E px \in {ParseFloat(fnArgs.x)}, py \in {ParseFloat(fnArgs.y)} :
         IF IsNaN(px) \/ IsNaN(py)
         THEN /\ fnResult' = Returned("addPointGd", FALSE)
              /\ UNCHANGED <<fnPoints, fnArgs>>
         ELSE /\ fnPoints' = Append(fnPoints, <<px, py>>)
              /\ fnArgs' = [fnArgs EXCEPT !.x = <<>>, !.y = <<>>]
              /\ fnResult' = Returned("addPointGd", TRUE)
    /\ UNCHANGED pageVars

\* addPoint of the comparison page: if (!isNaN(x) && !isNaN(y))
FnAddPointCmp ==
    /\ \E px \in {ParseFloat(fnArgs.x)}, py \in {ParseFloat(fnArgs.y)} :
         IF ~IsNaN(px) /\ ~IsNaN(py)
         THEN /\ fnPoints' = Append(fnPoints, <<px, py>>)
              /\ fnArgs' = [fnArgs EXCEPT !.x = <<>>, !.y = <<>>]
              /\ fnResult' = Returned("addPointCmp", TRUE)
         ELSE /\ fnResult' = Returned("addPointCmp", FALSE)
              /\ UNCHANGED <<fnPoints, fnArgs>>
    /\ UNCHANGED pageVars

\* addFromForm of the decision-boundaries page:
\* if (Number.isFinite(x) && Number.isFinite(y))
FnAddFromFormDb ==
    /\ \E px \in {ParseFloat(fnArgs.x)}, py \in {ParseFloat(fnArgs.y)} :
         IF NumberIsFinite(px) /\ NumberIsFinite(py)
         THEN /\ fnPoints' = Append(fnPoints, <<px, py, fnArgs.label>>)
              /\ fnArgs' = [fnArgs EXCEPT !.x = <<>>, !.y = <<>>]
              /\ fnResult' = Returned("addFromForm", TRUE)
         ELSE /\ fnResult' = Returned("addFromForm", FALSE)
              /\ UNCHANGED <<fnPoints, fnArgs>>
    /\ UNCHANGED pageVars

FormInit ==
    /\ PageInit
    /\ fnPoints \in FormPointSets
    /\ \E tx \in FormTexts, ty \in FormTexts :
          fnArgs = [kind |-> "form", x |-> tx, y |-> ty, label |-> "A"]
    /\ fnResult = NoResult

FormNext ==
    \/ FnAddPointGd
    \/ FnAddPointCmp
    \/ FnAddFromFormDb

(***************************************************************************)
(* Claims about the comparison page                                        *)
(***************************************************************************)

\* C3: the three model animations are independent: a step that toggles
\* play/pause of one model leaves the progress and the accuracy visibility of
\* the other two models unchanged.
C3_ToggleLeavesOthers ==
    [][\A chart \in Models :
          CmpToggleAnimation(chart) =>
              \A other \in Models \ {chart} :
                  /\ progress'[other] = progress[other]
                  /\ showAccuracy'[other] = showAccuracy[other]]_vars

\* C10: regression is total on every reachable point set: the computation never
\* raises and the slope and intercept it returns are finite.
C10_RegressionTotal ==
    /\ cmpStatus = "ok"
    /\ IsFinite(calculations.slope)
    /\ IsFinite(calculations.intercept)

(***************************************************************************)
(* Claims about the gradient-descent page                                  *)
(***************************************************************************)
\* a frame in which the loop's stopping test came true
GdFrameStops == GdFrame /\ ~gdIsAnimating'

\* C2: pressing the toggle while the gradient-descent animation runs cancels
\* the pending frame and leaves (m, b) and the drawn line as the last
\* gradient step left them (no rollback, no snap); while the page is idle no
\* step other than a user action changes (m, b).
C2_StopKeepsLastStep ==
    [][/\ GdStop => /\ currentRef' = currentRef
                    /\ gdDrawn' = gdDrawn
                    /\ ~gdIsAnimating'
                    /\ ~gdRafRef'
       /\ (~gdIsAnimating /\ gdEdits' = gdEdits) => currentRef' = currentRef]_vars

\* C2 witness: idle after a user stop in the middle of a run: (m, b) is the
\* last gradient step, which is neither the start (0, 0) nor the closed form
C2_Witness ==
    /\ ~gdIsAnimating
    /\ ~gdRafRef
    /\ loopEnv.iter > 0
    /\ currentRef = lastStep
    /\ currentRef # loopEnv.closed
    /\ currentRef # ZeroLine

\* C7 as stated: the frame in which the stopping test comes true leaves
\* (m, b) at the values computed by the last gradient step.
C7_StopLeavesLastStep ==
    [][GdFrameStops => currentRef' = lastStep']_vars

\* C7 amended: the frame in which the stopping test comes true stops the
\* driver (isAnimating false, no frame pending) and sets (m, b) to the closed
\* form captured when the animation started; while idle no frame alters them.
C7_StopSnapsToClosedForm ==
    [][/\ GdFrameStops => /\ StopTest(loopEnv, lastStep', loopEnv'.iter)
                          /\ currentRef' = loopEnv.closed
                          /\ gdDrawn' = loopEnv.closed
                          /\ ~gdRafRef'
       /\ (~gdIsAnimating /\ gdEdits' = gdEdits) => currentRef' = currentRef]_vars

\* C7 witness: the loop stopped by the tolerance after several frames, the
\* last gradient step differing from the closed form now in currentRef
C7_Witness ==
    /\ ~gdIsAnimating
    /\ ~gdRafRef
    /\ loopEnv.iter > loopEnv.cfg.stepsPerFrame
    /\ loopEnv.iter <= MaxIters
    /\ IsFinite(lastStep.m) /\ IsFinite(lastStep.b)
    /\ lastStep # loopEnv.closed
    /\ currentRef = loopEnv.closed

\* C8: a running animation has taken at most 4000 gradient steps, an
\* animation never takes more than 4001, and with frames delivered fairly
\* every running animation becomes idle with no frame pending.
C8_Terminates ==
    /\ [](gdIsAnimating => loopEnv.iter <= MaxIters)
    /\ [](loopEnv.iter <= MaxIters + 1)
    /\ (gdIsAnimating ~> (~gdIsAnimating /\ ~gdRafRef))

\* C8 witness: a diverged run (the last gradient step is not a number) that
\* the ceiling stopped at step 4001
C8_Witness ==
    /\ ~gdIsAnimating
    /\ ~gdRafRef
    /\ loopEnv.iter = MaxIters + 1
    /\ ~IsFinite(lastStep.m)

\* C9: every line the page draws has a finite slope and intercept, and a
\* frame that computes a non-finite parameter stops the driver.
C9_NoNonFiniteRender ==
    /\ IsFinite(gdDrawn.m)
    /\ IsFinite(gdDrawn.b)
    /\ (gdIsAnimating => (IsFinite(currentRef.m) /\ IsFinite(currentRef.b)))

\* C21: a gradient step on an empty point set leaves (m, b) unchanged, and
\* animateGradientDescent with no points leaves the page idle, requests no
\* frame and changes neither (m, b) nor the target nor the drawn line.
C21_EmptyIsNoOp ==
    [][/\ \A sp \in {"fast", "slow"} :
            GradientStep(<<>>, GetAnimationConfig(sp), currentRef) = currentRef
       /\ (GdStart /\ dataPoints = <<>>) =>
            /\ ~gdIsAnimating'
            /\ ~gdRafRef'
            /\ currentRef' = currentRef
            /\ targetRef' = targetRef
            /\ gdDrawn' = gdDrawn
            /\ dataPoints' = <<>>]_vars

\* C21 witness: idle with no points after the toggle was pressed on the
\* empty point set
C21_Witness ==
    /\ loopEnv.emptyStarts > 0
    /\ dataPoints = <<>>
    /\ ~gdIsAnimating
    /\ ~gdRafRef
    /\ currentRef = ZeroLine

\* C26: when the loop stops the animation, the line it leaves in currentRef
\* and on the canvas is the closed-form solution of the points as they are
\* at that moment.
C26_StopShowsClosedForm ==
    [][(GdFrame /\ gdRafRef /\ ~gdRafRef') =>
          /\ currentRef' = ComputeClosedForm(dataPoints')
          /\ gdDrawn' = ComputeClosedForm(dataPoints')]_vars

\* C27: Clear Data leaves no points and the line (0, 0), and while there are
\* no points the line stays (0, 0).
C27_ClearedStaysZero ==
    [][/\ GdClearData => (dataPoints' = <<>> /\ currentRef' = ZeroLine)
       /\ (dataPoints = <<>> /\ currentRef = ZeroLine /\ dataPoints' = <<>>) =>
             currentRef' = ZeroLine]_vars

(***************************************************************************)
(* Claims about the linear-regression page with sliders                    *)
(***************************************************************************)
\* the frame that observes elapsed >= duration
LrFrameCompletes == LrFrame /\ lrRun'.elapsed >= stepEnv.duration
\* the callback of a canvas click's timer runs in this step
LrTimerFires == lrTimer >= 0 /\ lrTimer' = -1

C5_ProgressInUnitInterval ==
    [][LrFrame => /\ lrRun'.elapsed >= 0
                  /\ lrRun'.norm >= 0
                  /\ lrRun'.norm <= EaseUnit
                  /\ (lrRun.frames > 0 => lrRun'.norm >= lrRun.norm)]_vars

C25_ManualOverrides ==
    /\ manualM # Null => currentM = manualM
    /\ manualB # Null => currentB = manualB

(***************************************************************************)
(* Claims about the decision-boundaries page                               *)
(***************************************************************************)
\* C4: at any moment at most one running driver writes a given parameter
\* vector (k for KNN, the SVM weights, the logistic weights): pressing
\* Animate while a driver is running does not start a second one.
C4_OneDriverPerParameter ==
    \A a \in DbAlgorithms :
        Cardinality({i \in DOMAIN dbTimers : dbTimers[i].alg = a}) <= 1

(***************************************************************************)
(* Claims about the regression functions                                   *)
(***************************************************************************)
FitCalled == fnResult.fn \in {"calcRegression", "computeClosedForm"}
AllSameX(pts) == \A i \in 1..Len(pts) : pts[i][1] = pts[1][1]
MeanY(pts) == FDiv(FSum([i \in 1..Len(pts) |-> pts[i][2]]), FInt(Len(pts)))
\* |a - n / 100| < 1 / 100
Near(a, n) == FLt(FAbs(FSub(a, FDec(n, 2))), FDec(1, 2))

\* C11: both closed-form fits return (0, 0, 0) for the empty point set, and
\* slope 0 with intercept mean(y) for every non-empty point set whose x-values
\* are all equal.
C11_DegenerateFit ==
    FitCalled =>
        /\ fnPoints = <<>> => fnResult.val = [m |-> FZero, b |-> FZero, sse |-> FZero]
        /\ (fnPoints # <<>> /\ AllSameX(fnPoints)) =>
               /\ fnResult.val.m = FZero
               /\ fnResult.val.b = MeanY(fnPoints)

\* C12 as stated: on the default points the fit has slope 1.2, intercept 1.6
\* and a positive sum of squared residuals.
C12_DefaultFitAsStated ==
    (FitCalled /\ fnPoints = DefaultFitPoints) =>
        /\ Near(fnResult.val.m, 120)
        /\ Near(fnResult.val.b, 160)
        /\ FLt(FZero, fnResult.val.sse)

\* C12 amended: on the default points the fit has slope 1.2, intercept 1.8
\* and a positive sum of squared residuals (2.8).
C12_DefaultFit ==
    (FitCalled /\ fnPoints = DefaultFitPoints) =>
        /\ Near(fnResult.val.m, 120)
        /\ Near(fnResult.val.b, 180)
        /\ Near(fnResult.val.sse, 280)

\* C12 witness: calcRegression was called on the default points
C12_Witness ==
    /\ fnPoints = DefaultFitPoints
    /\ fnResult.fn = "calcRegression"
    /\ Near(fnResult.val.b, 180)

\* C13: for at least two points that do not all share one x, no pair
\* (m + i, b + j) of the grid |i| <= 1, |j| <= GridSpan around the fitted
\* (m, b) has a strictly lower sum of squared residuals than the fitted pair.
C13_FitMinimisesSse ==
    (FitCalled /\ Len(fnPoints) >= 2 /\ ~AllSameX(fnPoints)) =>
        \A i \in -1..1, j \in -GridSpan..GridSpan :
            ~FLt(SseOf(fnPoints, FAdd(fnResult.val.m, FInt(i)), FAdd(fnResult.val.b, FInt(j))),
                 SseOf(fnPoints, fnResult.val.m, fnResult.val.b))

(***************************************************************************)
(* Claims about the domains and the data / pixel mappings                  *)
(***************************************************************************)
DomainCalled == fnResult.fn \in {"getAxisLimits", "getDomainLr", "computeBounds", "getDomainDb"}
RoundTripCalled == fnResult.fn \in {"roundTripLr", "roundTripGd", "roundTripDb"}

\* C14: every domain computation returns xMax > xMin and yMax > yMin, for
\* every point set (empty, one point, shared coordinates, negative ones).
C14_DomainNonDegenerate ==
    DomainCalled =>
        /\ FLt(fnResult.val.xMin, fnResult.val.xMax)
        /\ FLt(fnResult.val.yMin, fnResult.val.yMax)

\* the point of fnArgs lies in the domain dom
InDomain(dom) ==
    /\ FLe(dom.xMin, fnArgs.x) /\ FLe(fnArgs.x, dom.xMax)
    /\ FLe(dom.yMin, fnArgs.y) /\ FLe(fnArgs.y, dom.yMax)
\* rounding allowance of a round trip: span / 2^(SigBits - 4)
Allowance(span) == FMul(span, FRound(1, 4 - SigBits))

\* C15: for a point inside the domain, mapping it to a pixel and the pixel
\* back to data returns the point, on both axes, up to the rounding of the
\* operations (at most 2^-(SigBits - 4) of the axis span).
C15_RoundTrip ==
    (RoundTripCalled /\ InDomain(fnResult.val.dom)) =>
        /\ FLe(FAbs(FSub(fnResult.val.data.x, fnArgs.x)),
               Allowance(FSub(fnResult.val.dom.xMax, fnResult.val.dom.xMin)))
        /\ FLe(FAbs(FSub(fnResult.val.data.y, fnArgs.y)),
               Allowance(FSub(fnResult.val.dom.yMax, fnResult.val.dom.yMin)))

\* C15 witness: a round trip on the slider page of a point strictly inside
\* the domain and above its middle, whose pixel lies in the upper half of
\* the plot area (inverted y axis) and which came back within the allowance
C15_Witness ==
    /\ fnResult.fn = "roundTripLr"
    /\ InDomain(fnResult.val.dom)
    /\ FLt(FAdd(fnResult.val.dom.yMin, fnResult.val.dom.yMax), FAdd(fnArgs.y, fnArgs.y))
    /\ FLt(FAdd(fnResult.val.pixel.py, fnResult.val.pixel.py), FInt(fnArgs.height))
    /\ FLe(FAbs(FSub(fnResult.val.data.y, fnArgs.y)),
           Allowance(FSub(fnResult.val.dom.yMax, fnResult.val.dom.yMin)))

(***************************************************************************)
(* Claims about classifyGrid                                               *)
(***************************************************************************)
KnnCalled == fnResult.fn \in {"classifyKnnDb", "classifyKnnAbout"}
NumPoints == Len(fnPoints)
\* 2 * a, an integer for the coordinates used here, which are multiples of 1/2
Twice(a) == FFloor(Flt(a.m, a.e + 1))
\* four times the squared Euclidean distance of the query to training point i,
\* in exact integer arithmetic
SqDist(i) ==
    LET dx == Twice(fnArgs.x) - Twice(fnPoints[i][1])
        dy == Twice(fnArgs.y) - Twice(fnPoints[i][2])
    IN dx * dx + dy * dy
\* the sets of k training points none of which is farther than a point left out
NearestSets(k) ==
    { S \in SUBSET (1..NumPoints) :
        /\ Cardinality(S) = k
        /\ \A i \in S, j \in (1..NumPoints) \ S : SqDist(i) <= SqDist(j) }
CountIn(S, label) == Cardinality({i \in S : fnPoints[i][3] = label})
Majority(S) == IF CountIn(S, "A") >= CountIn(S, "B") THEN "A" ELSE "B"
\* k clamped to [1, n], for a whole k
ClampedK == Max(1, Min(NumPoints, FFloor(fnArgs.k)))

C17_KnnAllPoints ==
    (KnnCalled /\ NumPoints >= 1 /\ FLe(FInt(NumPoints), fnArgs.k))
        => fnResult.val = Majority(1..NumPoints)

\* the point nearest to the query is an A, the whole set votes B, k = 15
C17_Witness ==
    /\ KnnCalled
    /\ NumPoints = 3
    /\ fnArgs.k = FInt(15)
    /\ \A S \in NearestSets(1) : CountIn(S, "A") = 1
    /\ fnResult.val = "B"

\* k clamped to [1, n] as a number, and its parts, in exact arithmetic: the
\* clamped k is KNum / KDen with KDen a power of two
ClampedKFractional == FMax(FInt(1), FMin(FInt(NumPoints), fnArgs.k))
KDen == Pow2(-ClampedKFractional.e)
KNum == ClampedKFractional.m
KFloor == KNum \div KDen
KWeight == KNum - KFloor * KDen
\* KDen times the interpolated tally of a label
Tally(Sf, Sc, label) == CountIn(Sf, label) * (KDen - KWeight) + CountIn(Sc, label) * KWeight

\* C18: for a k that is not whole after clamping to [1, n], the KNN of
\* About.tsx tallies each label as (1 - w) * votes among the floor(k) nearest
\* + w * votes among the ceil(k) nearest, w = k - floor(k), and returns A
\* exactly when the tally of A is at least the tally of B.
C18_KnnInterpolates ==
    (fnResult.fn = "classifyKnnAbout" /\ NumPoints >= 1 /\ ~IsWhole(ClampedKFractional))
        => \E Sf \in NearestSets(KFloor) : \E Sc \in NearestSets(KFloor + 1) :
              /\ Sf \subseteq Sc
              /\ fnResult.val =
                    (IF Tally(Sf, Sc, "A") >= Tally(Sf, Sc, "B") THEN "A" ELSE "B")

\* k = 2.25, the two nearest tie and the third nearest is a B: the quarter
\* vote of the third point decides for B, where k rounded to 2 gives A
C18_Witness ==
    /\ fnResult.fn = "classifyKnnAbout"
    /\ fnArgs.k = FDec(225, 2)
    /\ NumPoints >= 3
    /\ \A S \in NearestSets(2) : CountIn(S, "A") = 1
    /\ \A S \in NearestSets(3) : CountIn(S, "A") = 1
    /\ fnResult.val = "B"

\* w1 * x + w2 * y + b as the code evaluates it
SvmF == FAdd(FAdd(FMul(fnArgs.w1, fnArgs.x), FMul(fnArgs.w2, fnArgs.y)), fnArgs.b)
SvmArgsWhole ==
    /\ IsWhole(fnArgs.w1) /\ IsWhole(fnArgs.w2) /\ IsWhole(fnArgs.b)
    /\ IsWhole(fnArgs.x) /\ IsWhole(fnArgs.y)
\* w1 * x + w2 * y + b in integer arithmetic, for whole arguments
SvmWholeF ==
    FFloor(fnArgs.w1) * FFloor(fnArgs.x) + FFloor(fnArgs.w2) * FFloor(fnArgs.y) + FFloor(fnArgs.b)
SvmScenario(x, y) ==
    /\ fnArgs.w1 = FInt(1) /\ fnArgs.w2 = FInt(1) /\ fnArgs.b = FInt(-4)
    /\ fnArgs.x = FInt(x) /\ fnArgs.y = FInt(y)

\* C19: the linear-margin classifier returns A exactly when
\* w1 * x + w2 * y + bias >= 0 and B otherwise; with w1 = 1, w2 = 1,
\* bias = -4 it labels (1, 1) as B and (3, 3) as A.
C19_SvmSign ==
    fnResult.fn = "classifySvm"
        => /\ fnResult.val = "A" <=> FLe(FZero, SvmF)
           /\ fnResult.val \in {"A", "B"}
           /\ SvmArgsWhole => (fnResult.val = "A" <=> SvmWholeF >= 0)
           /\ SvmScenario(1, 1) => fnResult.val = "B"
           /\ SvmScenario(3, 3) => fnResult.val = "A"

\* a query point on the boundary: w = (1, 1, -4) at (2, 2) has f = 0, label A
C19_Witness ==
    /\ fnResult.fn = "classifySvm"
    /\ SvmScenario(2, 2)
    /\ fnResult.val = "A"

\* C20 as stated: for every c > 0 the classification with
\* (c * w1, c * w2, c * bias) returns the label of the classification with
\* (w1, w2, bias).
C20_ScalingInvariant ==
    fnResult.fn = "classifySvmScaled"
        => fnResult.val = ClassifySvm(fnArgs.w1, fnArgs.w2, fnArgs.b, fnArgs.x, fnArgs.y)

\* c is a power of two: the products c * w are then exact
IsPowerOfTwo(c) == c.m = Pow2(SigBits - 1)

\* C20: for every c > 0 that is a power of two the classification with
\* (c * w1, c * w2, c * bias) returns the label of the classification with
\* (w1, w2, bias).
C20_ExactScalingInvariant ==
    (fnResult.fn = "classifySvmScaled" /\ IsPowerOfTwo(fnArgs.c))
        => fnResult.val = ClassifySvm(fnArgs.w1, fnArgs.w2, fnArgs.b, fnArgs.x, fnArgs.y)

\* weights halved, with w1 = 0.3 a number that binary floating point rounds,
\* at a query on the B side
C20_Witness ==
    /\ fnResult.fn = "classifySvmScaled"
    /\ fnArgs.c = FDec(5, 1)
    /\ fnArgs.w1 = FDec(3, 1)
    /\ fnResult.val = "B"

(***************************************************************************)
(* Claims about the SVM boundary animation                                 *)
(***************************************************************************)
\* C29: when the SVM animation has completed on points of both classes whose
\* centroids differ, the weights it has set label the centroid of class A
\* as A and the centroid of class B as B.
C29_SeparatesCentroids ==
    (/\ fnResult.fn \in {"animateSvmAbout", "animateSvmDb"}
     /\ BothClasses(fnPoints)
     /\ CentroidOf(WithLabel(fnPoints, "A")) # CentroidOf(WithLabel(fnPoints, "B")))
    => LET w == fnResult.val
           aC == CentroidOf(WithLabel(fnPoints, "A"))
           bC == CentroidOf(WithLabel(fnPoints, "B"))
       IN /\ ClassifySvm(w.w1, w.w2, w.b, aC[1], aC[2]) = "A"
          /\ ClassifySvm(w.w1, w.w2, w.b, bC[1], bC[2]) = "B"

(***************************************************************************)
(* Claims about the add-point forms                                        *)
(***************************************************************************)
\* C24: an add appends a point only when both parsed coordinates are finite,
\* a rejected add leaves the points and the fields as they were, and no
\* point has a NaN or infinite coordinate.
C24_OnlyFiniteAppended ==
    [][/\ fnPoints' # fnPoints =>
            NumberIsFinite(ParseFloat(fnArgs.x)) /\ NumberIsFinite(ParseFloat(fnArgs.y))
       /\ fnPoints' = fnPoints => fnArgs' = fnArgs
       /\ \A i \in DOMAIN fnPoints' :
            NumberIsFinite(fnPoints'[i][1]) /\ NumberIsFinite(fnPoints'[i][2])]_vars

(***************************************************************************)
(* Claims about the XOR network page and the parameter vectors             *)
(***************************************************************************)
\* what has been added to each weight and bias since the last initNetwork
NnHistories ==
    {nnWeights.w0[i] : i \in DOMAIN nnWeights.w0}
        \cup {nnWeights.w1[i] : i \in DOMAIN nnWeights.w1}
        \cup {nnBiases[i] : i \in DOMAIN nnBiases}

\* C22: every update a weight or bias has received was computed from all
\* four XOR examples.
C22_FullBatch ==
    \A h \in NnHistories : \A k \in 1..Len(h) : h[k] = XorData

\* The page that the router has mounted, in the specification that follows
\* the parameter vectors of two pages
Routes == {"/neural-networks", "/decision-boundaries"}
ParamsInit ==
    /\ PageInit
    /\ fnPoints = <<>>
    /\ fnArgs \in {[kind |-> "route", path |-> r] : r \in Routes}
    /\ fnResult = NoResult
ParamsNext ==
    \/ fnArgs.path = "/neural-networks" /\ NnNext
    \/ fnArgs.path = "/decision-boundaries" /\ DbNext

\* C23: the network always has 8 input-to-hidden weights, 4 hidden-to-output
\* weights and 5 biases, and the logistic weight vector always has length 6.
C23_ShapesKept ==
    /\ Len(nnWeights.w0) = 8
    /\ Len(nnWeights.w1) = 4
    /\ Len(nnBiases) = 5
    /\ Len(logW) = 6

\* C23 witness: training steps, a reset, and training steps again
C23_Witness ==
    /\ nnEdits = 3
    /\ nnRunning
    /\ nnEpoch = 2
    /\ \A h \in NnHistories : Len(h) > 0

\* C28: every weight and bias is the result of exactly epoch-many updates
\* applied in sequence since the last reset.
C28_NoLostStep ==
    \A h \in NnHistories : Len(h) = nnEpoch

(***************************************************************************)
(* Claims about the CNN visualizer                                         *)
(***************************************************************************)
\* C30: while the visualizer is running, every animation frame advances the
\* step by one layer, wrapping from the last layer to 0; the step stays
\* within 0..6, and Reset leaves step 0 with the animation stopped.
C30_FrameAdvancesStep ==
    [][/\ (CnnLoop /\ cnnIsRunning) => cnnStep' = (cnnStep + 1) % NumLayers
       /\ cnnStep' \in 0..(NumLayers - 1)
       /\ CnnReset => (cnnStep' = 0 /\ ~cnnIsRunning' /\ ~cnnFrame'.pending)]_vars

(***************************************************************************)
(* Specifications                                                          *)
(***************************************************************************)
Init == PageInit /\ FnIdle

SpecCmp == Init /\ [][CmpNext]_vars

SpecGd == Init /\ [][GdNext]_vars

SpecLr == Init /\ [][LrNext]_vars

SpecDb == Init /\ [][DbNext]_vars

SpecNn == Init /\ [][NnNext]_vars

SpecCnn == Init /\ [][CnnNext]_vars

\* the parameter vectors of the XOR network page and the decision-boundaries page
SpecParams == ParamsInit /\ [][ParamsNext]_vars

\* Frames requested with requestAnimationFrame are eventually delivered:
\* weak fairness of GdFrame, which is enabled exactly when gdRafRef holds.
SpecGdFair == SpecGd /\ (([]<>(~gdRafRef)) \/ ([]<><<GdFrame>>_vars))

\* the regression functions called on given points
SpecFit == FitInit /\ [][FitNext]_vars

\* the domain and mapping functions called on given points
SpecView == ViewInit /\ [][ViewNext]_vars

\* classifyGrid called on given training points, parameters and query point
SpecClassify == ClassifyInit /\ [][ClassifyNext]_vars

\* completed SVM boundary animations
SpecSvmAnim == SvmAnimInit /\ [][SvmAnimNext]_vars

\* calls of the add-point handlers on the texts of their fields
SpecForm == FormInit /\ [][FormNext]_vars

====
